---- MODULE Spec2Model ----
(***************************************************************************)
(* void-rs: an encrypted file vault.                                       *)
(*                                                                         *)
(* Two layers of the repository are modelled:                              *)
(*   - the virtual filesystem  (src/void/src/filesystem.rs): variable fs   *)
(*   - the Store engine        (src/src/lib/store.rs): variables store     *)
(*     and folder                                                          *)
(* and the crypto primitives they call (src/void/src/crypto.rs).           *)
(* Byte strings are sequences of small integers; a source file is read in  *)
(* blocks of BufferSize bytes, a scaled-down value of the 50 MiB buffer.   *)
(* Paths are modelled in normalized form, as sequences of components.      *)
(***************************************************************************)
EXTENDS Integers, Sequences, FiniteSets, TLC

VARIABLES
    fs,       \* the Filesystem struct: [data, nodes, graph]
    moves,    \* how many times mv has succeeded on fs
    arg,      \* id allocator called alone: the stored ids, in storage order
    out,      \* id allocator called alone: the last call and the id it returned
    store,    \* the Store struct held by the caller: [inodes, data, iv, key, path, salt]
    folder,   \* the store folder on disk: the journal Store.void and the chunk files
    failures  \* how many calls on the Store have returned Err

vars == <<fs, moves, arg, out, store, folder, failures>>

(***************************************************************************)
(* Bounds of the model                                                     *)
(***************************************************************************)
MaxNodes == 3        \* nodes in the Filesystem
MaxChunks == 2       \* chunk descriptors in the Filesystem
MaxDepth == 2        \* components of a path given to mkdirp / touch
MaxMoves == 1        \* successful mv calls in one run
NumMaterial == 1     \* distinct key materials a caller hands to append
MaxIds == 3          \* ids stored when the allocators are checked alone
MaxIdValue == 4      \* largest id stored when the allocators are checked alone
MaxInodeId == 3      \* largest inode id the Store hands out
MaxDataId == 2       \* largest chunk id the Store hands out
MaxReads == 2        \* reads and writes of one add that an I/O failure can hit
MaxFailures == 1     \* calls on the Store that return Err in one run
MaxStoreDepth == 1   \* components of a store path given to add
NumUuids == 1        \* distinct values uuid() draws

Names == {"a", "b"}
MetaKeys == {"k"}
MetaValues == {"v"}
\* tags are strings, kept as the sequence of their characters
Tags == {<<"t">>, <<"u">>}

Paths == UNION {[1..n -> Names] : n \in 0..MaxDepth}

(***************************************************************************)
(* Generic helpers                                                         *)
(***************************************************************************)
Min(S) == CHOOSE x \in S : \A y \in S : x <= y

Range(s) == {s[i] : i \in DOMAIN s}

RECURSIVE SelectIn(_, _)
\* Vec::retain / iter().filter(): the elements of s that lie in S, in order
SelectIn(s, S) ==
    IF s = <<>> THEN <<>>
    ELSE IF Head(s) \in S THEN <<Head(s)>> \o SelectIn(Tail(s), S)
         ELSE SelectIn(Tail(s), S)

IdsOf(s) == [i \in DOMAIN s |-> s[i].id]

\* itertools sorted() / Vec::sort() on a list of u64
Sorted(s) == SortSeq(s, LAMBDA x, y : x < y)

\* sort_by_key(|x| x.id): stable sort by id
SortById(s) == SortSeq(s, LAMBDA x, y : x.id < y.id)

(***************************************************************************)
(* Filesystem (src/void/src/filesystem.rs)                                 *)
(***************************************************************************)
NewFilesystem == [data |-> <<>>, nodes |-> <<>>, graph |-> <<>>]

Ok(v, f) == [ok |-> TRUE, err |-> "", val |-> v, fs |-> f]
Err(e, f) == [ok |-> FALSE, err |-> e, val |-> 0, fs |-> f]

\* mutation of NextId: the ids are not sorted before they are zipped with 1..=len
NextIdUnsorted(ids) ==
    LET mism == {i \in 1..Len(ids) : ids[i] # i}
    IN  IF mism = {} THEN Len(ids) + 1 ELSE Min(mism)

\* next_node_id / next_data_id: sorted ids zipped with 1..=len, the first index
\* that differs from its id, else len + 1
NextId(ids) ==
    LET s == Sorted(ids)
        mism == {i \in 1..Len(s) : s[i] # i}
    IN  IF mism = {} THEN Len(s) + 1 ELSE Min(mism)

next_node_id(f) == NextId(IdsOf(f.nodes))
next_data_id(f) == NextId(IdsOf(f.data))

NoNode == [id |-> -1]

\* self.nodes.iter().find(|node| node.id == id)
FindNode(f, id) ==
    LET hits == {i \in DOMAIN f.nodes : f.nodes[i].id = id}
    IN  IF hits = {} THEN NoNode ELSE f.nodes[Min(hits)]

\* self.graph.get(&id.to_string()).unwrap_or(&default)
Children(f, id) == IF id \in DOMAIN f.graph THEN f.graph[id] ELSE <<>>

\* graph.insert(key, value)
GraphInsert(g, key, value) ==
    [k \in (DOMAIN g) \cup {key} |-> IF k = key THEN value ELSE g[k]]

\* the child of node_id named component, first in child-list order
FindChild(f, node_id, component) ==
    LET ch == Children(f, node_id)
        hits == {i \in DOMAIN ch : /\ FindNode(f, ch[i]) # NoNode
                                   /\ FindNode(f, ch[i]).name = component}
    IN  IF hits = {} THEN NoNode ELSE FindNode(f, ch[Min(hits)])

RECURSIVE Resolve(_, _, _)
\* the walk of exists(): the id the components lead to from node_id, or -1
Resolve(f, node_id, comps) ==
    IF comps = <<>> THEN node_id
    ELSE LET hit == FindChild(f, node_id, Head(comps))
         IN  IF hit = NoNode THEN -1 ELSE Resolve(f, hit.id, Tail(comps))

exists(f, path) == Resolve(f, 0, path) # -1

NewNode(id, name, is_file) ==
    [id |-> id, name |-> name, size |-> 0, is_file |-> is_file,
     metadata |-> {}, data |-> <<>>, tags |-> <<>>]

RECURSIVE MkdirpFromNoDescend(_, _, _)
\* mutation of MkdirpFrom: a directory that exists is not stepped into, the
\* walk goes on from where it was
MkdirpFromNoDescend(f, node_id, comps) ==
    IF comps = <<>> THEN Ok(node_id, f)
    ELSE LET hit == FindChild(f, node_id, Head(comps))
         IN  IF hit # NoNode
             THEN IF hit.is_file THEN Err("CannotCreateDirectoryError", f)
                  ELSE MkdirpFromNoDescend(f, node_id, Tail(comps))
             ELSE LET node == NewNode(next_node_id(f), Head(comps), FALSE)
                      new_entry == Sorted(<<node.id>> \o Children(f, node_id))
                      g == [f EXCEPT !.graph = GraphInsert(f.graph, node_id, new_entry),
                                     !.nodes = Append(f.nodes, node)]
                  IN  MkdirpFromNoDescend(g, node.id, Tail(comps))

RECURSIVE MkdirpFromThroughFiles(_, _, _)
\* mutation of MkdirpFrom: a file met on the way is stepped into like a
\* directory
MkdirpFromThroughFiles(f, node_id, comps) ==
    IF comps = <<>> THEN Ok(node_id, f)
    ELSE LET hit == FindChild(f, node_id, Head(comps))
         IN  IF hit # NoNode
             THEN MkdirpFromThroughFiles(f, hit.id, Tail(comps))
             ELSE LET node == NewNode(next_node_id(f), Head(comps), FALSE)
                      new_entry == Sorted(<<node.id>> \o Children(f, node_id))
                      g == [f EXCEPT !.graph = GraphInsert(f.graph, node_id, new_entry),
                                     !.nodes = Append(f.nodes, node)]
                  IN  MkdirpFromThroughFiles(g, node.id, Tail(comps))

RECURSIVE MkdirpFrom(_, _, _)
MkdirpFrom(f, node_id, comps) ==
    IF comps = <<>> THEN Ok(node_id, f)
    ELSE LET hit == FindChild(f, node_id, Head(comps))
         IN  IF hit # NoNode
             THEN IF hit.is_file THEN Err("CannotCreateDirectoryError", f)
                  ELSE MkdirpFrom(f, hit.id, Tail(comps))
             ELSE LET node == NewNode(next_node_id(f), Head(comps), FALSE)
                      new_entry == Sorted(<<node.id>> \o Children(f, node_id))
                      g == [f EXCEPT !.graph = GraphInsert(f.graph, node_id, new_entry),
                                     !.nodes = Append(f.nodes, node)]
                  IN  MkdirpFrom(g, node.id, Tail(comps))

mkdirp(f, path) == MkdirpFrom(f, 0, path)

\* mutation of touch: the new node takes the id after the number of nodes
touchCountingIds(f, path) ==
    IF path = <<>> THEN Ok(0, f)
    ELSE LET name == path[Len(path)]
             made == mkdirp(f, SubSeq(path, 1, Len(path) - 1))
         IN  IF ~made.ok THEN made
             ELSE LET g == made.fs
                      parent_id == made.val
                      children == Children(g, parent_id)
                      hits == {i \in DOMAIN g.nodes :
                                  /\ g.nodes[i].name = name
                                  /\ g.nodes[i].id \in Range(children)}
                  IN  IF hits # {} THEN Ok(g.nodes[Min(hits)].id, g)
                      ELSE LET node == NewNode(Len(g.nodes) + 1, name, TRUE)
                           IN  Ok(node.id,
                                  [g EXCEPT !.graph = GraphInsert(g.graph, parent_id,
                                                          <<node.id>> \o children),
                                            !.nodes = Append(g.nodes, node)])

\* mutation of touch: the children of the parent are not searched for the
\* name, a new file node is made on every call
touchAlwaysNew(f, path) ==
    IF path = <<>> THEN Ok(0, f)
    ELSE LET name == path[Len(path)]
             made == mkdirp(f, SubSeq(path, 1, Len(path) - 1))
         IN  IF ~made.ok THEN made
             ELSE LET g == made.fs
                      parent_id == made.val
                      children == Children(g, parent_id)
                      node == NewNode(next_node_id(g), name, TRUE)
                  IN  Ok(node.id,
                         [g EXCEPT !.graph = GraphInsert(g.graph, parent_id,
                                                 <<node.id>> \o children),
                                   !.nodes = Append(g.nodes, node)])

touch(f, path) ==
    IF path = <<>> THEN Ok(0, f)
    ELSE LET name == path[Len(path)]
             made == mkdirp(f, SubSeq(path, 1, Len(path) - 1))
         IN  IF ~made.ok THEN made
             ELSE LET g == made.fs
                      parent_id == made.val
                      children == Children(g, parent_id)
                      hits == {i \in DOMAIN g.nodes :
                                  /\ g.nodes[i].name = name
                                  /\ g.nodes[i].id \in Range(children)}
                  IN  IF hits # {} THEN Ok(g.nodes[Min(hits)].id, g)
                      ELSE LET node == NewNode(next_node_id(g), name, TRUE)
                           IN  Ok(node.id,
                                  [g EXCEPT !.graph = GraphInsert(g.graph, parent_id,
                                                          <<node.id>> \o children),
                                            !.nodes = Append(g.nodes, node)])

\* the File view returned by get(): the chunk descriptors are taken in the
\* order of the chunk table
FileOf(f, node) ==
    [id |-> node.id, name |-> node.name, size |-> node.size,
     is_file |-> node.is_file, metadata |-> node.metadata, tags |-> node.tags,
     data |-> SelectSeq(f.data, LAMBDA d : d.id \in Range(node.data))]

get(f, id) ==
    IF id = 0
    THEN Ok([id |-> 0, name |-> "/", size |-> 0, is_file |-> FALSE,
             metadata |-> {}, tags |-> <<>>, data |-> <<>>], f)
    ELSE IF FindNode(f, id) = NoNode THEN Err("FileDoesNotExistError", f)
         ELSE Ok(FileOf(f, FindNode(f, id)), f)

\* the node list with the first node of the given id replaced
WithNode(f, id, node) ==
    LET i == Min({j \in DOMAIN f.nodes : f.nodes[j].id = id})
    IN  [f EXCEPT !.nodes[i] = node]

\* mutation of set_size: the node is looked up by id alone
set_sizeOfAnyNode(f, id, size) ==
    LET hits == {i \in DOMAIN f.nodes : f.nodes[i].id = id}
    IN  IF hits = {} THEN Err("InternalStructureError", f)
        ELSE Ok(0, [f EXCEPT !.nodes[Min(hits)].size = size])

set_size(f, id, size) ==
    LET hits == {i \in DOMAIN f.nodes : f.nodes[i].id = id /\ f.nodes[i].is_file}
    IN  IF hits = {} THEN Err("InternalStructureError", f)
        ELSE Ok(0, [f EXCEPT !.nodes[Min(hits)].size = size])

\* graph.iter().find(|(_, value)| value.contains(&id)): a HashMap is iterated
\* in no fixed order, so any key whose list holds id may be the one found
ParentsOf(f, id) == {k \in DOMAIN f.graph : id \in Range(f.graph[k])}

Without(s, id) == SelectSeq(s, LAMBDA x : x # id)

\* mutation of mv: the new parent's list is built from the new parent's own
\* children instead of the old parent's
mvOntoNewParent(f, id, parent) ==
    IF FindNode(f, id) = NoNode THEN {Err("FileDoesNotExistError", f)}
    ELSE IF FindNode(f, parent) = NoNode THEN {Err("FolderDoesNotExistError", f)}
    ELSE IF ParentsOf(f, id) = {} THEN {Err("InternalStructureError", f)}
    ELSE {LET g1 == GraphInsert(f.graph, old_parent, Without(f.graph[old_parent], id))
              prev == IF parent \in DOMAIN g1 THEN g1[parent] ELSE <<>>
          IN  Ok(0, [f EXCEPT !.graph = GraphInsert(g1, parent, <<id>> \o prev)])
          : old_parent \in ParentsOf(f, id)}

\* mutation of mv: the new parent's list becomes id followed by the NEW
\* parent's own children
mvOntoChildren(f, id, parent) ==
    IF FindNode(f, id) = NoNode THEN {Err("FileDoesNotExistError", f)}
    ELSE IF FindNode(f, parent) = NoNode THEN {Err("FolderDoesNotExistError", f)}
    ELSE IF ParentsOf(f, id) = {} THEN {Err("InternalStructureError", f)}
    ELSE {LET old_children == Without(f.graph[old_parent], id)
              g1 == GraphInsert(f.graph, old_parent, old_children)
              new_children == IF parent \in DOMAIN g1 THEN g1[parent] ELSE <<>>
          IN  Ok(0, [f EXCEPT !.graph = GraphInsert(g1, parent, <<id>> \o new_children)])
          : old_parent \in ParentsOf(f, id)}

\* mv(id, parent): id is taken out of the list of the parent found, and the new
\* parent's list becomes id followed by the OLD parent's remaining children
mv(f, id, parent) ==
    IF FindNode(f, id) = NoNode THEN {Err("FileDoesNotExistError", f)}
    ELSE IF FindNode(f, parent) = NoNode THEN {Err("FolderDoesNotExistError", f)}
    ELSE IF ParentsOf(f, id) = {} THEN {Err("InternalStructureError", f)}
    ELSE {LET old_children == Without(f.graph[old_parent], id)
              g1 == GraphInsert(f.graph, old_parent, old_children)
              new_children == g1[old_parent]
          IN  Ok(0, [f EXCEPT !.graph = GraphInsert(g1, parent, <<id>> \o new_children)])
          : old_parent \in ParentsOf(f, id)}

GraphValues(g) == UNION {Range(g[k]) : k \in DOMAIN g}

RECURSIVE CleanKeys(_)
\* the first loop of clean(): keys no list refers to are dropped (root stays)
\* until the number of keys stops changing
CleanKeys(g) ==
    LET vals == GraphValues(g)
        keep == {k \in DOMAIN g : k \in vals \/ k = 0}
    IN  IF keep = DOMAIN g THEN g ELSE CleanKeys([k \in keep |-> g[k]])

DataKeep(nodes) == UNION {Range(nodes[i].data) : i \in DOMAIN nodes}

\* mutation of clean: the chunk table is not swept
cleanKeepsData(f) ==
    LET g == CleanKeys(f.graph)
        nodes == SelectSeq(f.nodes, LAMBDA n : n.id \in GraphValues(g))
    IN  Ok(<<>>, [f EXCEPT !.graph = g, !.nodes = nodes])

clean(f) ==
    LET g == CleanKeys(f.graph)
        keep == GraphValues(g)
        nodes == SelectSeq(f.nodes, LAMBDA n : n.id \in keep)
        data_keep == DataKeep(nodes)
        removed_data == SelectSeq(f.data, LAMBDA d : d.id \notin data_keep)
    IN  Ok(removed_data,
           [f EXCEPT !.graph = g, !.nodes = nodes,
                     !.data = SelectSeq(f.data, LAMBDA d : d.id \in data_keep)])

rm(f, id) ==
    IF id = 0 THEN {Ok(f.data, NewFilesystem)}
    ELSE IF ParentsOf(f, id) = {} THEN {Err("InternalStructureError", f)}
    ELSE {clean([f EXCEPT !.graph = GraphInsert(f.graph, parent,
                                        Without(Children(f, parent), id))])
          : parent \in ParentsOf(f, id)}

\* mutation of append: the chunk takes the id after the largest one in use,
\* counted from the table's length
appendByLength(f, id, d) ==
    LET node == FindNode(f, id)
    IN  IF node = NoNode \/ ~node.is_file THEN Err("FileDoesNotExistError", f)
        ELSE LET nd == [d EXCEPT !.id = Len(f.data) + 1]
                 g == [WithNode(f, id, [node EXCEPT !.data = Append(node.data, nd.id)])
                          EXCEPT !.data = Append(f.data, nd)]
             IN  get(g, id)

\* mutation of append: the chunk is stored before the node is tested for
\* being a file
appendBeforeTest(f, id, d) ==
    LET node == FindNode(f, id)
    IN  IF node = NoNode THEN Err("FileDoesNotExistError", f)
        ELSE LET nd == [d EXCEPT !.id = next_data_id(f)]
                 g == [WithNode(f, id, [node EXCEPT !.data = Append(node.data, nd.id)])
                          EXCEPT !.data = Append(f.data, nd)]
             IN  IF ~node.is_file THEN Err("FileDoesNotExistError", g)
                 ELSE get(g, id)

append(f, id, d) ==
    LET next_id == next_data_id(f)
        node == FindNode(f, id)
    IN  IF node = NoNode THEN Err("FileDoesNotExistError", f)
        ELSE IF ~node.is_file THEN Err("FileDoesNotExistError", f)
        ELSE LET nd == [d EXCEPT !.id = next_id]
                 g == [WithNode(f, id, [node EXCEPT !.data = Append(node.data, nd.id)])
                          EXCEPT !.data = Append(f.data, nd)]
             IN  get(g, id)

truncate(f, id) ==
    LET node == FindNode(f, id)
    IN  IF node = NoNode THEN Err("FileDoesNotExistError", f)
        ELSE IF ~node.is_file THEN Err("FileDoesNotExistError", f)
        ELSE Ok(0, [WithNode(f, id, [node EXCEPT !.data = <<>>])
                      EXCEPT !.data = SelectSeq(f.data,
                                         LAMBDA d : d.id \notin Range(node.data))])

sort(f) == [f EXCEPT !.nodes = SortById(f.nodes), !.data = SortById(f.data)]

\* HashMap::insert / remove / get on a node's metadata, kept as a set of
\* <<key, value>> pairs with one pair per key
MapInsert(m, key, value) == {p \in m : p[1] # key} \cup {<<key, value>>}
MapHas(m, key) == \E p \in m : p[1] = key
MapGet(m, key) == (CHOOSE p \in m : p[1] = key)[2]

set_metadata(f, id, key, value) ==
    LET node == FindNode(f, id)
    IN  IF node = NoNode THEN Err("FileDoesNotExistError", f)
        ELSE Ok(0, WithNode(f, id,
                     [node EXCEPT !.metadata = MapInsert(node.metadata, key, value)]))

get_metadata(f, id, key) ==
    LET node == FindNode(f, id)
    IN  IF node = NoNode THEN Err("FileDoesNotExistError", f)
        ELSE IF MapHas(node.metadata, key) THEN Ok(MapGet(node.metadata, key), f)
        ELSE Err("NoSuchMetadataKey", f)

rm_metadata(f, id, key) ==
    LET node == FindNode(f, id)
    IN  IF node = NoNode THEN Err("FileDoesNotExistError", f)
        ELSE IF MapHas(node.metadata, key)
             THEN Ok(0, WithNode(f, id,
                          [node EXCEPT !.metadata = {p \in node.metadata : p[1] # key}]))
             ELSE Err("NoSuchMetadataKey", f)

\* add_tag without the test for a tag the node already has
add_tagAgain(f, id, tag) ==
    LET node == FindNode(f, id)
    IN  IF node = NoNode THEN Err("FileDoesNotExistError", f)
        ELSE Ok(0, WithNode(f, id, [node EXCEPT !.tags = Append(node.tags, tag)]))

add_tag(f, id, tag) ==
    LET node == FindNode(f, id)
    IN  IF node = NoNode THEN Err("FileDoesNotExistError", f)
        ELSE IF tag \in Range(node.tags) THEN Ok(0, f)
        ELSE Ok(0, WithNode(f, id, [node EXCEPT !.tags = Append(node.tags, tag)]))

rm_tag(f, id, tag) ==
    LET node == FindNode(f, id)
    IN  IF node = NoNode THEN Err("FileDoesNotExistError", f)
        ELSE Ok(0, WithNode(f, id, [node EXCEPT !.tags = Without(node.tags, tag)]))

clear_tag(f, id) ==
    LET node == FindNode(f, id)
    IN  IF node = NoNode THEN Err("FileDoesNotExistError", f)
        ELSE Ok(0, WithNode(f, id, [node EXCEPT !.tags = <<>>]))

(***************************************************************************)
(* Crypto primitives (src/void/src/crypto.rs)                              *)
(*                                                                         *)
(* HKDF and Blake2b are modelled as injective in their inputs; AES-GCM is  *)
(* an authenticated cipher: a ciphertext opens only under the key and the  *)
(* nonce that sealed it.                                                   *)
(***************************************************************************)
hash(data, salt) == [hashed |-> data, salt |-> salt]

derive_key(pswd, salt, iv) == [pswd |-> pswd, salt |-> salt, iv |-> iv]

encrypt(data, key, iv) == [sealed |-> data, key |-> key, iv |-> iv]

decryptAnyKey(cipher, key, iv) == [ok |-> TRUE, val |-> cipher.sealed]

\* Err(CannotDecryptFileError) unless key and nonce are the sealing ones
decrypt(cipher, key, iv) ==
    IF cipher.key = key /\ cipher.iv = iv
        THEN [ok |-> TRUE, val |-> cipher.sealed]
        ELSE [ok |-> FALSE, val |-> <<>>]

(***************************************************************************)
(* The Store engine (src/src/lib/store.rs)                                 *)
(*                                                                         *)
(* An INode's data holds the ids of its children when it is a directory    *)
(* and the ids of its chunks when it is a file.                            *)
(***************************************************************************)
StorePath == "store"

Max(S) == CHOOSE x \in S : \A y \in S : x >= y

\* iter().map(|x| x.id).max().unwrap_or(0) + 1
NextMaxId(s) == IF s = <<>> THEN 1 ELSE Max(Range(IdsOf(s))) + 1

INode(id, parent, name, size, is_file, metadata, data) ==
    [id |-> id, parent |-> parent, name |-> name, size |-> size,
     is_file |-> is_file, metadata |-> metadata, data |-> data]

NoINode == INode(-1, -1, "", 0, FALSE, {}, <<>>)

RootINode == INode(0, 0, "", 0, FALSE, {}, <<>>)

\* no Store value is held
NoStore ==
    [inodes |-> <<>>, data |-> <<>>, iv |-> 0, key |-> derive_key("", 0, 0),
     path |-> "", salt |-> 0]

\* the store folder does not exist
NoFolder == [exists |-> FALSE, has_journal |-> FALSE, journal |-> <<>>, parts |-> {}]

\* flexbuffers: a serialized value is one root; no root can be read out of
\* an empty file
fb_serialize(value) == <<value>>

fb_deserialize(bytes) ==
    IF Len(bytes) = 1 THEN [ok |-> TRUE, val |-> bytes[1]]
                      ELSE [ok |-> FALSE, val |-> <<>>]

RECURSIVE Digits(_)
\* u64::to_string(): the decimal digits of n
Digits(n) == IF n < 10 THEN <<n>> ELSE Digits(n \div 10) \o <<n % 10>>

RECURSIVE HexEncode(_)
\* hex::encode of an ASCII digit string: digit d is the byte 0x3d
HexEncode(digits) ==
    IF digits = <<>> THEN <<>> ELSE <<3, Head(digits)>> \o HexEncode(Tail(digits))

PartNameWidth == 32

\* format!("{:0>32}", hex::encode(id.to_string()))
PartName(id) ==
    LET hex == HexEncode(Digits(id))
    IN  [i \in 1..(PartNameWidth - Len(hex)) |-> 0] \o hex

\* outcome of a call on the Store: the value returned, the Store and the
\* folder as the call left them
SOk(v, st, disk) == [ok |-> TRUE, err |-> "", val |-> v, st |-> st, disk |-> disk]
SErr(e, st, disk) == [ok |-> FALSE, err |-> e, val |-> <<>>, st |-> st, disk |-> disk]

\* fs::remove_file(part).unwrap_or(()) for each id of ids
RemoveParts(disk, ids) ==
    LET gone == {PartName(ids[i]) : i \in DOMAIN ids}
    IN  [disk EXCEPT !.parts = {p \in disk.parts : p.name \notin gone}]

\* self.data without the descriptors whose id is in ids
RemoveData(st, ids) ==
    [st EXCEPT !.data = SelectSeq(st.data, LAMBDA d : d.id \notin Range(ids))]

PartNames(disk) == {p.name : p \in disk.parts}

\* fs::read(part_path)
ReadPart(disk, name) ==
    IF name \in PartNames(disk)
        THEN [ok |-> TRUE, val |-> (CHOOSE p \in disk.parts : p.name = name).content]
        ELSE [ok |-> FALSE, val |-> <<>>]

\* fs::write(part_file, content): creates or replaces the file
WritePart(disk, name, content) ==
    [disk EXCEPT !.parts =
        {p \in disk.parts : p.name # name} \cup {[name |-> name, content |-> content]}]

\* Store::save with a journal that is never written
saveNoWrite(st, disk, jfail) ==
    SOk(<<>>, [st EXCEPT !.inodes = SortById(st.inodes), !.data = SortById(st.data)], disk)

\* Store::save; jfail: fs::write on the journal fails
save(st, disk, jfail) ==
    IF ~(disk.exists /\ disk.has_journal) THEN SErr("FileDoesNotExistError", st, disk)
    ELSE
        LET sorted == [st EXCEPT !.inodes = SortById(st.inodes),
                                 !.data = SortById(st.data)]
            inodes == encrypt(fb_serialize(sorted.inodes), sorted.key, sorted.iv)
            data == encrypt(fb_serialize(sorted.data), sorted.key, sorted.iv)
            store_file ==
                [inodes |-> inodes, inodes_hash |-> hash(inodes, sorted.salt),
                 data |-> data, data_hash |-> hash(data, sorted.salt),
                 iv |-> sorted.iv, salt |-> sorted.salt]
        IN  IF jfail THEN SErr("CannotWriteFileError", sorted, disk)
            ELSE SOk(<<>>, sorted, [disk EXCEPT !.journal = fb_serialize(store_file)])

\* create without the test for a path that exists already
createOverExisting(disk, password, salt, iv, jfail) ==
    LET made == [exists |-> TRUE, has_journal |-> TRUE, journal |-> <<>>,
                 parts |-> disk.parts]
        st == [inodes |-> <<RootINode>>, data |-> <<>>, iv |-> iv,
               key |-> derive_key(password, salt, iv), path |-> StorePath,
               salt |-> salt]
        saved == save(st, made, jfail)
    IN  IF saved.ok THEN saved ELSE SErr(saved.err, NoStore, saved.disk)

\* Store::create; salt and iv are the two uuid() draws
create(disk, password, salt, iv, jfail) ==
    IF disk.exists THEN SErr("FileAlreadyExistsError", NoStore, disk)
    ELSE
        LET made == [exists |-> TRUE, has_journal |-> TRUE, journal |-> <<>>,
                     parts |-> {}]
            st == [inodes |-> <<RootINode>>, data |-> <<>>, iv |-> iv,
                   key |-> derive_key(password, salt, iv), path |-> StorePath,
                   salt |-> salt]
            saved == save(st, made, jfail)
        IN  IF saved.ok THEN saved ELSE SErr(saved.err, NoStore, saved.disk)

\* Store::open
open(disk, password) ==
    IF ~disk.exists THEN SErr("FolderDoesNotExistError", NoStore, disk)
    ELSE IF ~disk.has_journal THEN SErr("FileDoesNotExistError", NoStore, disk)
    ELSE
        LET store_file == fb_deserialize(disk.journal)
        IN  IF ~store_file.ok THEN SErr("CannotDeserializeError", NoStore, disk)
            ELSE
                LET salt == store_file.val.salt
                    iv == store_file.val.iv
                    key == derive_key(password, salt, iv)
                    inodes == decrypt(store_file.val.inodes, key, iv)
                    data == decrypt(store_file.val.data, key, iv)
                IN  IF ~inodes.ok THEN SErr("CannotDecryptFileError", NoStore, disk)
                    ELSE IF ~data.ok THEN SErr("CannotDecryptFileError", NoStore, disk)
                    ELSE IF ~fb_deserialize(inodes.val).ok
                        THEN SErr("CannotDeserializeError", NoStore, disk)
                    ELSE IF ~fb_deserialize(data.val).ok
                        THEN SErr("CannotDeserializeError", NoStore, disk)
                    ELSE SOk(<<>>,
                             [inodes |-> fb_deserialize(inodes.val).val,
                              data |-> fb_deserialize(data.val).val,
                              iv |-> iv, key |-> key, path |-> StorePath,
                              salt |-> salt],
                             disk)

\* outcome of a private helper that touches the Store only
IOk(st) == [ok |-> TRUE, err |-> "", st |-> st]
IErr(e, st) == [ok |-> FALSE, err |-> e, st |-> st]

\* iter().find(|inode| inode.id == id); NoINode: Err(InternalStructureError)
inode_with_id(st, id) ==
    LET hits == SelectSeq(st.inodes, LAMBDA n : n.id = id)
    IN  IF hits = <<>> THEN NoINode ELSE hits[1]

NoData == [id |-> -1, key |-> derive_key("", 0, 0), iv |-> 0, salt |-> 0]

data_with_id(st, id) ==
    LET hits == SelectSeq(st.data, LAMBDA d : d.id = id)
    IN  IF hits = <<>> THEN NoData ELSE hits[1]

\* the first id of ids that names an existing inode called name
ChildNamed(st, ids, name) ==
    LET hits == SelectSeq(ids, LAMBDA id : /\ inode_with_id(st, id).id # -1
                                           /\ inode_with_id(st, id).name = name)
    IN  IF hits = <<>> THEN NoINode ELSE inode_with_id(st, hits[1])

RECURSIVE WalkPath(_, _, _)
WalkPath(st, node, comps) ==
    IF comps = <<>> THEN node
    ELSE LET next_node == ChildNamed(st, node.data, Head(comps))
         IN  IF next_node.id = -1 THEN NoINode
             ELSE WalkPath(st, next_node, Tail(comps))

\* NoINode: Err(InternalStructureError)
inode_with_path(st, path) ==
    LET root == inode_with_id(st, 0)
    IN  IF root.id = -1 THEN NoINode
        ELSE IF path = <<>> THEN root
        ELSE LET node == WalkPath(st, root, path)
             IN  IF node.id # -1 /\ node.name = path[Len(path)] THEN node
                 ELSE NoINode

RECURSIVE path_for_inode(_, _)
\* the components from the root down to inode, following parent
path_for_inode(st, inode) ==
    IF inode.id = 0 \/ inode.id = -1 THEN <<>>
    ELSE path_for_inode(st, inode_with_id(st, inode.parent)) \o <<inode.name>>

RECURSIVE inode_walk(_, _)
RECURSIVE WalkChildren(_, _)
\* the loop of inode_walk over the ids of one directory; an id naming no
\* inode yields NoINode, where the code panics on unwrap()
WalkChildren(st, ids) ==
    IF ids = <<>> THEN <<>>
    ELSE LET child == inode_with_id(st, Head(ids))
         IN  <<child>>
                 \o (IF child.is_file THEN <<>> ELSE inode_walk(st, child))
                 \o WalkChildren(st, Tail(ids))

inode_walk(st, inode) ==
    IF inode.is_file THEN <<>> ELSE WalkChildren(st, inode.data)

WalkPanics(st, inode) ==
    \E i \in DOMAIN inode_walk(st, inode) : inode_walk(st, inode)[i].id = -1

RECURSIVE Dedup(_)
\* Vec::dedup(): consecutive repeats removed
Dedup(s) ==
    IF Len(s) < 2 THEN s
    ELSE IF s[1] = s[2] THEN Dedup(Tail(s))
    ELSE <<s[1]>> \o Dedup(Tail(s))

\* self.inodes.retain(|node| node.id != inode.id); self.inodes.push(inode)
ReplaceINode(st, inode) ==
    [st EXCEPT !.inodes = SelectSeq(st.inodes, LAMBDA n : n.id # inode.id) \o <<inode>>]

inode_add_child(st, parent_id, child_id) ==
    LET parent == inode_with_id(st, parent_id)
        child == inode_with_id(st, child_id)
    IN  IF parent.id = -1 \/ child.id = -1 THEN IErr("InternalStructureError", st)
        ELSE IF parent.is_file THEN IErr("InternalStructureError", st)
        ELSE IOk(ReplaceINode(st,
                 [parent EXCEPT !.data = Dedup(Sorted(parent.data \o <<child.id>>))]))

inode_remove_child(st, parent_id, child_id) ==
    LET parent == inode_with_id(st, parent_id)
        child == inode_with_id(st, child_id)
    IN  IF parent.id = -1 \/ child.id = -1 THEN IErr("InternalStructureError", st)
        ELSE IF parent.is_file THEN IErr("InternalStructureError", st)
        ELSE IOk(ReplaceINode(st,
                 [parent EXCEPT !.data = Without(parent.data, child.id)]))

RECURSIVE MkdirpLoop(_, _, _)
\* the loop of inode_mkdirp: node is the clone held by the loop
MkdirpLoop(st, node, comps) ==
    IF comps = <<>> THEN IOk(st)
    ELSE
        LET child == ChildNamed(st, node.data, Head(comps))
        IN  IF child.id # -1 THEN MkdirpLoop(st, child, Tail(comps))
            ELSE
                LET inode == INode(NextMaxId(st.inodes), node.id, Head(comps), 0,
                                   FALSE, {}, <<>>)
                    pushed == [st EXCEPT !.inodes = st.inodes \o <<inode>>]
                    added == inode_add_child(pushed, inode.parent, inode.id)
                IN  IF ~added.ok THEN added
                    ELSE MkdirpLoop(added.st, inode, Tail(comps))

inode_mkdirp(st, path) ==
    LET root == inode_with_id(st, 0)
    IN  IF root.id = -1 THEN IErr("InternalStructureError", st)
        ELSE MkdirpLoop(st, root, path)

BufferSize == 2

\* a reader that hands out full buffers only
BlocksFullOnly(content) ==
    [i \in 1..(Len(content) \div BufferSize) |->
        SubSeq(content, (i - 1) * BufferSize + 1, i * BufferSize)]

RECURSIVE Blocks(_)
\* what the successive file_handle.read(bytes) calls return before 0
Blocks(content) ==
    IF Len(content) <= BufferSize
        THEN (IF content = <<>> THEN <<>> ELSE <<content>>)
        ELSE <<SubSeq(content, 1, BufferSize)>>
                 \o Blocks(SubSeq(content, BufferSize + 1, Len(content)))

NoFault == [kind |-> "none", at |-> 0]

\* tree_magic::from_filepath: the detected type is not modelled further
MimeType == "application/octet-stream"

\* the "Path contains a file?" loop: the proper prefixes of store_path are
\* looked up from the root down until one does not exist
PrefixIsFile(st, store_path) ==
    \E k \in 0..(Len(store_path) - 1) :
        /\ \A j \in 0..k : inode_with_path(st, SubSeq(store_path, 1, j)).id # -1
        /\ inode_with_path(st, SubSeq(store_path, 1, k)).is_file

\* where the file goes: the directory (store_path) and the name it gets
Placement(st, file_name, store_path, ends_in_slash) ==
    LET taken == [ok |-> FALSE, store_path |-> <<>>, file_name |-> ""]
        joined == inode_with_path(st, store_path \o <<file_name>>)
        node == inode_with_path(st, store_path)
    IN  IF ends_in_slash
            THEN IF joined.id # -1 THEN taken
                 ELSE IF PrefixIsFile(st, store_path) THEN taken
                 ELSE [ok |-> TRUE, store_path |-> store_path, file_name |-> file_name]
        ELSE IF node.id # -1
            THEN IF node.is_file THEN taken
                 ELSE IF joined.id # -1 THEN taken
                 ELSE [ok |-> TRUE, store_path |-> store_path, file_name |-> file_name]
        ELSE [ok |-> TRUE, store_path |-> SubSeq(store_path, 1, Len(store_path) - 1),
              file_name |-> store_path[Len(store_path)]]

\* the end of add, after the read loop: the inode is stored and saved
AddFinish(st, disk, inode, fault) ==
    LET pushed == [st EXCEPT !.inodes = st.inodes \o <<inode>>]
        added == inode_add_child(pushed, inode.parent, inode.id)
        saved == save(added.st, disk, fault.kind = "save")
    IN  IF ~added.ok THEN SErr(added.err, added.st, disk)
        ELSE IF ~saved.ok
            THEN SErr(saved.err, RemoveData(saved.st, inode.data),
                      RemoveParts(disk, inode.data))
        ELSE saved

RECURSIVE AddLoop(_, _, _, _, _, _, _)
\* the read loop of add at its k-th read; u is what uuid() draws
AddLoop(st, disk, inode, blocks, k, fault, u) ==
    IF fault.kind = "read" /\ fault.at = k
        THEN SErr("CannotReadFileError", st, RemoveParts(disk, inode.data))
    ELSE IF k > Len(blocks) THEN AddFinish(st, disk, inode, fault)
    ELSE
        LET data == [id |-> NextMaxId(st.data),
                     key |-> derive_key(ToString(u), u, u), iv |-> u, salt |-> u]
            content == encrypt(blocks[k], data.key, data.iv)
        IN  IF fault.kind = "write" /\ fault.at = k
                THEN SErr("CannotWriteFileError", RemoveData(st, inode.data),
                          RemoveParts(disk, inode.data))
            ELSE AddLoop([st EXCEPT !.data = st.data \o <<data>>],
                         WritePart(disk, PartName(data.id), content),
                         [inode EXCEPT !.data = inode.data \o <<data.id>>],
                         blocks, k + 1, fault, u)

\* Store::add of a regular file src = [name, content] of the local disk
add(st, disk, src, store_path, ends_in_slash, fault, u) ==
    IF ~disk.exists THEN SErr("FolderDoesNotExistError", st, disk)
    ELSE IF ~disk.has_journal THEN SErr("FileDoesNotExistError", st, disk)
    ELSE IF fault.kind = "open" THEN SErr("CannotReadFileError", st, disk)
    ELSE
        LET place == Placement(st, src.name, store_path, ends_in_slash)
            made == inode_mkdirp(st, place.store_path)
            parent == inode_with_path(made.st, place.store_path)
            inode == INode(NextMaxId(made.st.inodes), parent.id, place.file_name,
                           Len(src.content), TRUE, {<<"mimetype", MimeType>>}, <<>>)
        IN  IF ~place.ok THEN SErr("StoreFileAlreadyExistsError", st, disk)
            ELSE IF ~made.ok THEN SErr(made.err, made.st, disk)
            ELSE IF parent.id = -1 THEN SErr("InternalStructureError", made.st, disk)
            ELSE AddLoop(made.st, disk, inode, Blocks(src.content), 1, fault, u)

RECURSIVE ReadChunks(_, _, _)
\* the loop of get over file.data: the decrypted parts, concatenated as they
\* are written to the output file
ReadChunks(st, disk, ids) ==
    IF ids = <<>> THEN [ok |-> TRUE, err |-> "", val |-> <<>>]
    ELSE
        LET cipher == ReadPart(disk, PartName(Head(ids)))
            data == data_with_id(st, Head(ids))
            content == decrypt(cipher.val, data.key, data.iv)
            rest == ReadChunks(st, disk, Tail(ids))
        IN  IF ~cipher.ok THEN [ok |-> FALSE, err |-> "CannotReadFileError", val |-> <<>>]
            ELSE IF data.id = -1
                THEN [ok |-> FALSE, err |-> "InternalStructureError", val |-> <<>>]
            ELSE IF ~content.ok
                THEN [ok |-> FALSE, err |-> "CannotDecryptFileError", val |-> <<>>]
            ELSE IF ~rest.ok THEN rest
            ELSE [ok |-> TRUE, err |-> "", val |-> content.val \o rest.val]

\* Path::with_root on normalized paths whose names are single characters:
\* the first occurrence of remove in path is replaced by new_root; ok is
\* FALSE where the code returns None
with_root(path, remove, new_root) ==
    LET n == Len(remove)
        at == {i \in 0..(Len(path) - n) : SubSeq(path, i + 1, i + n) = remove}
    IN  IF at = {} THEN [ok |-> FALSE, val |-> <<>>]
        ELSE [ok |-> TRUE,
              val |-> SubSeq(path, 1, Min(at)) \o new_root
                          \o SubSeq(path, Min(at) + n + 1, Len(path))]

\* the directory of the local disk the source paths are relative to
SrcRoot == <<"tmp">>

\* Path::new(file_path) of the directory source: a trailing slash written
\* after the directory name is dropped, name, path and parent are those of
\* the directory
SourcePath(dir, src_slash) ==
    [name |-> dir.name, path |-> SrcRoot \o <<dir.name>>, parent |-> SrcRoot]

RECURSIVE AddEntries(_, _, _, _, _, _, _, _, _, _)
\* the loop of add over the files walkdir yields for a directory source, from
\* its k-th entry on; the at-th file is the one an I/O fault hits
AddEntries(st, disk, dir, src_slash, k, store_path, ends_in_slash, at, fault, u) ==
    IF k > Len(dir.files) THEN SOk(<<>>, st, disk)
    ELSE
        LET entry == dir.files[k]
            entry_path == SourcePath(dir, src_slash).path \o entry.rel
            file_path == IF ends_in_slash THEN SourcePath(dir, src_slash).parent
                         ELSE SourcePath(dir, src_slash).path
            moved == with_root(entry_path, file_path, store_path)
            added == {add(st, disk,
                          [name |-> entry.rel[Len(entry.rel)], content |-> entry.content],
                          moved.val, FALSE, IF k = at THEN fault ELSE NoFault, u)}
        IN  IF ~moved.ok THEN SErr("CannotParseError", st, disk)
            ELSE CHOOSE res \in
                     {IF ~r.ok THEN r
                      ELSE AddEntries(r.st, r.disk, dir, src_slash, k + 1, store_path,
                                      ends_in_slash, at, fault, u) : r \in added} : TRUE

\* Store::add of a directory dir = [name, files] of the local disk, files
\* being its regular files in the order walkdir yields them, each with its
\* path under the directory; src_slash: the source path was written with a
\* trailing slash; ends_in_slash: the store path was
add_dir(st, disk, dir, src_slash, store_path, ends_in_slash, at, fault, u) ==
    IF ~disk.exists THEN SErr("FolderDoesNotExistError", st, disk)
    ELSE IF ~disk.has_journal THEN SErr("FileDoesNotExistError", st, disk)
    ELSE AddEntries(st, disk, dir, src_slash, 1, store_path, ends_in_slash, at, fault, u)

\* the local path get is asked to write to
OutPath == <<"out">>

RECURSIVE GetFiles(_, _, _, _)
\* the loop of get over the files: each output file by its path on the local
\* disk and the bytes written to it
GetFiles(st, disk, files, store_path) ==
    IF files = <<>> THEN [ok |-> TRUE, err |-> "", val |-> <<>>]
    ELSE
        LET file == Head(files)
            disk_path == with_root(path_for_inode(st, file), store_path, OutPath)
            content == ReadChunks(st, disk, file.data)
            rest == GetFiles(st, disk, Tail(files), store_path)
        IN  IF ~disk_path.ok THEN [ok |-> FALSE, err |-> "CannotParseError", val |-> <<>>]
            ELSE IF ~content.ok THEN content
            ELSE IF ~rest.ok THEN rest
            ELSE [ok |-> TRUE, err |-> "",
                  val |-> <<[path |-> disk_path.val, content |-> content.val]>>
                              \o rest.val]

\* Store::get to the local path OutPath, which does not exist yet; val: the
\* files written
store_get(st, disk, store_path) ==
    LET inode == inode_with_path(st, store_path)
        files == IF inode.is_file THEN <<inode>>
                 ELSE SelectSeq(inode_walk(st, inode), LAMBDA n : n.is_file)
        got == GetFiles(st, disk, files, store_path)
    IN  IF inode.id = -1 THEN SErr("InternalStructureError", st, disk)
        ELSE IF WalkPanics(st, inode) THEN SErr("panic", st, disk)
        ELSE IF ~got.ok THEN SErr(got.err, st, disk)
        ELSE SOk(got.val, st, disk)

RECURSIVE FlatData(_)
\* data.extend(inode.data.clone()) over the walked inodes
FlatData(inodes) ==
    IF inodes = <<>> THEN <<>> ELSE Head(inodes).data \o FlatData(Tail(inodes))

\* Store::remove
remove(st, disk, path, jfail) ==
    LET inode == inode_with_path(st, path)
        inodes == inode_walk(st, inode)
        data == inode.data \o FlatData(inodes)
        unlinked == inode_remove_child(st, inode.parent, inode.id)
        gone == (IF inode.id # 0 THEN {inode.id} ELSE {}) \cup Range(IdsOf(inodes))
        kept == [unlinked.st EXCEPT
                    !.inodes = SelectSeq(unlinked.st.inodes, LAMBDA n : n.id \notin gone)]
        swept == RemoveParts(disk, data)
        saved == save(RemoveData(kept, data), swept, jfail)
    IN  IF inode.id = -1 THEN SErr("InternalStructureError", st, disk)
        ELSE IF WalkPanics(st, inode) THEN SErr("panic", st, disk)
        ELSE IF ~unlinked.ok THEN SErr(unlinked.err, unlinked.st, disk)
        ELSE saved

\* Store::metadata_set
metadata_set(st, disk, path, key, value, jfail) ==
    LET inode == inode_with_path(st, path)
    IN  IF inode.id = -1 THEN SErr("InternalStructureError", st, disk)
        ELSE save(ReplaceINode(st,
                      [inode EXCEPT !.metadata = MapInsert(inode.metadata, key, value)]),
                  disk, jfail)

\* Store::metadata_remove
metadata_remove(st, disk, path, key, jfail) ==
    LET inode == inode_with_path(st, path)
    IN  IF inode.id = -1 THEN SErr("InternalStructureError", st, disk)
        ELSE save(ReplaceINode(st,
                      [inode EXCEPT !.metadata = {p \in inode.metadata : p[1] # key}]),
                  disk, jfail)

\* Store::metadata_get
metadata_get(st, path, key) ==
    LET inode == inode_with_path(st, path)
    IN  IF inode.id = -1 THEN [ok |-> FALSE, err |-> "InternalStructureError", val |-> ""]
        ELSE IF MapHas(inode.metadata, key)
             THEN [ok |-> TRUE, err |-> "", val |-> MapGet(inode.metadata, key)]
        ELSE [ok |-> FALSE, err |-> "InternalStructureError", val |-> ""]

\* Store::metadata_list
metadata_list(st, path) ==
    LET inode == inode_with_path(st, path)
    IN  IF inode.id = -1 THEN [ok |-> FALSE, err |-> "InternalStructureError", val |-> {}]
        ELSE [ok |-> TRUE, err |-> "", val |-> inode.metadata]

\* Store::list: (name, size, is directory) of the file or of each child
list(st, path) ==
    LET inode == inode_with_path(st, path)
        entry(n) == <<n.name, n.size, ~n.is_file>>
        children == SelectSeq(inode.data, LAMBDA id : inode_with_id(st, id).id # -1)
    IN  IF inode.id = -1
        THEN [ok |-> FALSE, err |-> "InternalStructureError", val |-> <<>>]
        ELSE IF inode.is_file
        THEN [ok |-> TRUE, err |-> "", val |-> <<entry(inode)>>]
        ELSE [ok |-> TRUE, err |-> "",
              val |-> [i \in DOMAIN children |-> entry(inode_with_id(st, children[i]))]]

(***************************************************************************)
(* Path (src/void/src/path.rs)                                             *)
(*                                                                         *)
(* A string is the sequence of its characters.  std::path::Path and the    *)
(* path_absolutize crate are modelled on absolute strings by what their    *)
(* documentation states: components() drops empty and "." components,      *)
(* absolutize() resolves ".." against the components before it and keeps   *)
(* the root when there is none.                                            *)
(***************************************************************************)
Slash == "/"
Dot == "."
ParentDir == <<Dot, Dot>>

EndsWithSlash(s) == s # <<>> /\ s[Len(s)] = Slash

RECURSIVE CollapseSlashes(_)
\* Regex "[/]+" replace_all by "/"
CollapseSlashes(s) ==
    IF Len(s) < 2 THEN s
    ELSE IF s[1] = Slash /\ s[2] = Slash THEN CollapseSlashes(Tail(s))
    ELSE <<s[1]>> \o CollapseSlashes(Tail(s))

RECURSIVE SplitSlash(_, _)
\* the pieces of s between slashes, cur being the piece read so far
SplitSlash(s, cur) ==
    IF s = <<>> THEN <<cur>>
    ELSE IF Head(s) = Slash THEN <<cur>> \o SplitSlash(Tail(s), <<>>)
    ELSE SplitSlash(Tail(s), Append(cur, Head(s)))

\* std::path::Path::components() of an absolute string, the root left out
Components(s) == SelectSeq(SplitSlash(s, <<>>), LAMBDA c : c # <<>> /\ c # <<Dot>>)

RECURSIVE Absolutize(_, _)
\* absolutize() over the components: done is the path built so far
Absolutize(comps, done) ==
    IF comps = <<>> THEN done
    ELSE IF Head(comps) = ParentDir
         THEN Absolutize(Tail(comps),
                         IF done = <<>> THEN done ELSE SubSeq(done, 1, Len(done) - 1))
    ELSE Absolutize(Tail(comps), Append(done, Head(comps)))

RECURSIVE JoinSlash(_)
\* "/" followed by the components joined by "/"
JoinSlash(comps) ==
    IF comps = <<>> THEN <<>>
    ELSE <<Slash>> \o Head(comps) \o JoinSlash(Tail(comps))

\* to_str() of an absolutized path
AbsString(comps) == IF comps = <<>> THEN <<Slash>> ELSE JoinSlash(comps)

\* EasyPath::abs
abs(s) == AbsString(Absolutize(Components(s), <<>>))

NoPath == [ok |-> FALSE, name |-> <<>>, path |-> <<>>, parent |-> <<>>]

\* Path::new on an absolute string; NoPath: None
path_new(s) ==
    LET collapsed == CollapseSlashes(s)
        comps == Components(collapsed)
        absolute == abs(collapsed)
        norm == IF absolute # <<Slash>> /\ EndsWithSlash(absolute)
                THEN SubSeq(absolute, 1, Len(absolute) - 1) ELSE absolute
        \* file_name(): None for the root and for a path that ends in ".."
        has_name == comps # <<>> /\ comps[Len(comps)] # ParentDir
        \* parent(): None for the root, else the path without its last
        \* component, absolutized by abs_par
        has_parent == comps # <<>>
    IN  IF ~has_name /\ norm # <<Slash>> THEN NoPath
        ELSE IF ~has_parent /\ norm # <<Slash>> THEN NoPath
        ELSE [ok |-> TRUE,
              name |-> IF has_name THEN comps[Len(comps)] ELSE <<>>,
              path |-> norm,
              parent |-> IF has_parent
                         THEN AbsString(Absolutize(SubSeq(comps, 1, Len(comps) - 1), <<>>))
                         ELSE <<Slash>>]

\* str::contains / str::replacen(.., 1): where pat first occurs in s
Occurrences(s, pat) ==
    {i \in 0..(Len(s) - Len(pat)) : SubSeq(s, i + 1, i + Len(pat)) = pat}

replacen(s, pat, to) ==
    IF Occurrences(s, pat) = {} THEN s
    ELSE LET i == Min(Occurrences(s, pat))
         IN  SubSeq(s, 1, i) \o to \o SubSeq(s, i + Len(pat) + 1, Len(s))

\* Path::with_root on the Path self; NoPath: None
path_with_root(self, remove_in, new_root_in) ==
    LET removing == IF EndsWithSlash(remove_in)
                  THEN SubSeq(remove_in, 1, Len(remove_in) - 1) ELSE remove_in
        new_root == IF EndsWithSlash(new_root_in) /\ new_root_in # <<Slash>>
                    THEN SubSeq(new_root_in, 1, Len(new_root_in) - 1) ELSE new_root_in
        removed == replacen(self.path, removing, <<>>)
        new_path == replacen(self.path, removing, new_root)
    IN  IF Occurrences(self.path, removing) = {} THEN NoPath
        ELSE IF removed # <<>> /\ removed[1] # Slash THEN NoPath
        ELSE path_new(new_path)

\* Path::components of a Path, the root component left out as exists, mkdirp
\* and touch skip it
path_components(p) == Components(p.path)

(***************************************************************************)
(* Filesystem calls that take or return a path string                      *)
(***************************************************************************)
\* the name a component stands for: node names are single characters, so a
\* component of several characters is the name of no node
NameOf(c) == IF Len(c) = 1 THEN c[1] ELSE "other"

\* Filesystem::exists on the string s
exists_str(f, s) ==
    LET parsed == path_new(s)
    IN  IF ~parsed.ok THEN Err("CannotParseError", f)
        ELSE Ok(exists(f, [i \in DOMAIN path_components(parsed)
                              |-> NameOf(path_components(parsed)[i])]), f)

RECURSIVE PathUp(_, _, _)
\* the loop of Filesystem::path from node_id up to the root: the ids pushed,
\* for every key the HashMap may yield first.  The map is not changed during
\* the call, so find() answers the same for the same id: a walk that comes
\* back to an id in seen never ends ("hang")
PathUp(f, node_id, seen) ==
    IF node_id = 0 THEN {[ok |-> TRUE, err |-> "", ids |-> <<>>]}
    ELSE IF ParentsOf(f, node_id) = {}
         THEN {[ok |-> FALSE, err |-> "FileDoesNotExistError", ids |-> <<>>]}
    ELSE UNION {IF key \in seen
                THEN {[ok |-> FALSE, err |-> "hang", ids |-> <<>>]}
                ELSE {[r EXCEPT !.ids = <<key>> \o r.ids]
                         : r \in PathUp(f, key, seen \cup {key})}
                : key \in ParentsOf(f, node_id)}

RECURSIVE JoinNames(_)
\* Vec<String>::join("/") of node names
JoinNames(names) ==
    IF names = <<>> THEN <<>>
    ELSE IF Len(names) = 1 THEN <<names[1]>>
    ELSE <<names[1], Slash>> \o JoinNames(Tail(names))

\* Filesystem::path: the outcomes of path(id); val is the string returned
fs_path(f, id) ==
    {IF ~r.ok THEN [ok |-> FALSE, err |-> r.err, val |-> <<>>]
     ELSE LET up == <<id>> \o r.ids
              down == [i \in DOMAIN up |-> up[Len(up) + 1 - i]]
              found == SelectSeq(down, LAMBDA n : FindNode(f, n) # NoNode)
              names == [i \in DOMAIN found |-> FindNode(f, found[i]).name]
          IN  [ok |-> TRUE, err |-> "", val |-> <<Slash>> \o JoinNames(names)]
     : r \in PathUp(f, id, {id})}

RECURSIVE StripChar(_, _)
\* str::replace(c, ""): every c of s removed
StripChar(s, c) ==
    IF s = <<>> THEN <<>>
    ELSE IF Head(s) = c THEN StripChar(Tail(s), c)
    ELSE <<Head(s)>> \o StripChar(Tail(s), c)

\* iter().filter(|x| wanted.contains(x)).count()
CountIn(s, wanted) == Len(SelectSeq(s, LAMBDA x : x \in Range(wanted)))

\* the nodes search_tag keeps, in the order of nodes
SearchHits(f, tags) ==
    LET include == SelectSeq(tags, LAMBDA t : t = <<>> \/ t[1] # "!")
        marked == SelectSeq(tags, LAMBDA t : t # <<>> /\ t[1] = "!")
        exclude == [i \in DOMAIN marked |-> StripChar(marked[i], "!")]
    IN  SelectSeq(f.nodes,
                  LAMBDA n : /\ CountIn(n.tags, include) = Len(include)
                             /\ CountIn(n.tags, exclude) = 0)

RECURSIVE NamedFiles(_, _)
\* the File of each hit with its path for a name, for every path that
\* path() can return
NamedFiles(f, hits) ==
    IF hits = <<>> THEN {<<>>}
    ELSE {<<[FileOf(f, Head(hits)) EXCEPT !.name = r.val]>> \o rest
             : r \in {r \in fs_path(f, Head(hits).id) : r.ok},
               rest \in NamedFiles(f, Tail(hits))}

\* Filesystem::ls_all: the lists it can return; panics: path() fails or never
\* returns for a node, where the code unwraps
ls_all(f) ==
    [panics |-> \E i \in DOMAIN f.nodes : \E r \in fs_path(f, f.nodes[i].id) : ~r.ok,
     files |-> NamedFiles(f, f.nodes)]

\* Filesystem::search_tag: the lists it can return; panics: path() can fail
\* or never return for a hit, where the code unwraps
search_tag(f, tags) ==
    [panics |-> \E i \in DOMAIN SearchHits(f, tags) :
                    \E r \in fs_path(f, SearchHits(f, tags)[i].id) : ~r.ok,
     files |-> NamedFiles(f, SearchHits(f, tags))]

(***************************************************************************)
(* The Filesystem's public calls as actions                                *)
(***************************************************************************)
NodeIds == 0..(MaxNodes + 1)

\* one call on the Filesystem: r is what it returned and the state it left
FsCall(r) ==
    /\ Len(r.fs.nodes) <= MaxNodes
    /\ Len(r.fs.data) <= MaxChunks
    /\ fs' = r.fs
    /\ UNCHANGED <<arg, out, store, folder, failures>>

Mkdirp == \E path \in Paths : FsCall(mkdirp(fs, path)) /\ UNCHANGED moves

Touch == \E path \in Paths : FsCall(touch(fs, path)) /\ UNCHANGED moves

Mv ==
    /\ moves < MaxMoves
    /\ \E id \in NodeIds, parent \in NodeIds :
           \E r \in mv(fs, id, parent) :
               /\ FsCall(r)
               /\ moves' = IF r.ok THEN moves + 1 ELSE moves

Rm == \E id \in NodeIds : \E r \in rm(fs, id) : FsCall(r) /\ UNCHANGED moves

ChunkInputs == {[id |-> 0, key |-> m, iv |-> m, salt |-> m] : m \in 1..NumMaterial}

AppendChunk ==
    \E id \in NodeIds, d \in ChunkInputs : FsCall(append(fs, id, d)) /\ UNCHANGED moves

Truncate == \E id \in NodeIds : FsCall(truncate(fs, id)) /\ UNCHANGED moves

NoIds == <<>>
NoCall == [op |-> "none", val |-> 0]

InitFS ==
    /\ fs = NewFilesystem
    /\ moves = 0
    /\ arg = NoIds
    /\ out = NoCall
    /\ store = NoStore
    /\ folder = NoFolder
    /\ failures = 0

NextFS ==
    \/ Mkdirp
    \/ Touch
    \/ Mv
    \/ Rm
    \/ AppendChunk
    \/ Truncate

SpecFS == InitFS /\ [][NextFS]_vars

(***************************************************************************)
(* The calls on file contents: sort and set_size among the others          *)
(***************************************************************************)
Sort == FsCall(Ok(0, sort(fs))) /\ UNCHANGED moves

\* the sizes a caller sets
Sizes == {1}

SetSize ==
    \E id \in NodeIds, size \in Sizes : FsCall(set_size(fs, id, size)) /\ UNCHANGED moves

NextFSData ==
    \/ Mkdirp
    \/ Touch
    \/ Rm
    \/ AppendChunk
    \/ Truncate
    \/ Sort
    \/ SetSize

SpecFSData == InitFS /\ [][NextFSData]_vars

(***************************************************************************)
(* The calls on metadata and tags                                          *)
(***************************************************************************)
\* the metadata values a caller sets
Values == {"v", "w"}

SetMetadata ==
    \E id \in NodeIds, key \in MetaKeys, value \in Values :
        FsCall(set_metadata(fs, id, key, value)) /\ UNCHANGED moves

RmMetadata ==
    \E id \in NodeIds, key \in MetaKeys :
        FsCall(rm_metadata(fs, id, key)) /\ UNCHANGED moves

AddTag == \E id \in NodeIds, tag \in Tags : FsCall(add_tag(fs, id, tag)) /\ UNCHANGED moves

RmTag == \E id \in NodeIds, tag \in Tags : FsCall(rm_tag(fs, id, tag)) /\ UNCHANGED moves

ClearTag == \E id \in NodeIds : FsCall(clear_tag(fs, id)) /\ UNCHANGED moves

NextFSMeta ==
    \/ Touch
    \/ Rm
    \/ SetMetadata
    \/ RmMetadata

SpecFSMeta == InitFS /\ [][NextFSMeta]_vars

NextFSTags ==
    \/ Touch
    \/ Rm
    \/ AddTag
    \/ RmTag
    \/ ClearTag

SpecFSTags == InitFS /\ [][NextFSTags]_vars

(***************************************************************************)
(* clean() called on any Filesystem: a Filesystem is deserialized from    *)
(* the journal with whatever nodes, chunks and graph were stored          *)
(***************************************************************************)
MaxCleanId == 2      \* largest node id of a stored Filesystem given to clean

\* a stored node: a directory, a file without content, a file with chunk 1
StoredNodes(id) ==
    {NewNode(id, "a", FALSE), NewNode(id, "a", TRUE),
     [NewNode(id, "a", TRUE) EXCEPT !.data = <<1>>]}

\* the stored node lists: any of the ids, in id order
StoredNodeLists ==
    UNION {{[i \in 1..Cardinality(S) |->
                n[CHOOSE k \in S : Cardinality({j \in S : j < k}) = i - 1]]
              : n \in {m \in [S -> UNION {StoredNodes(id) : id \in S}] :
                           \A k \in S : m[k].id = k}}
           : S \in SUBSET (1..MaxCleanId)}

\* the stored child lists and graphs: any keys, any children
StoredChildLists == {<<>>} \cup {<<id>> : id \in 1..MaxCleanId} \cup {<<1, 2>>}

StoredGraphs ==
    UNION {[K -> StoredChildLists] : K \in SUBSET (0..MaxCleanId)}

\* the stored chunk tables
StoredChunks ==
    {SubSeq(<<[id |-> 1, key |-> 1, iv |-> 1, salt |-> 1],
              [id |-> 2, key |-> 1, iv |-> 1, salt |-> 1]>>, 1, n) : n \in 0..2}

InitClean ==
    /\ fs \in [data : StoredChunks, nodes : StoredNodeLists, graph : StoredGraphs]
    /\ moves = 0
    /\ arg = fs
    /\ out = NoCall
    /\ store = NoStore
    /\ folder = NoFolder
    /\ failures = 0

\* clean() is called; arg keeps the Filesystem it was called on
CallClean ==
    /\ \E r \in {clean(fs)} :
           /\ fs' = r.fs
           /\ out' = [op |-> "clean", val |-> r.val]
    /\ arg' = fs
    /\ UNCHANGED <<moves, store, folder, failures>>

NextClean == CallClean

SpecClean == InitClean /\ [][NextClean]_vars

(***************************************************************************)
(* The id allocators called alone, on any stored ids                       *)
(***************************************************************************)
Distinct(s) == Len(s) = Cardinality(Range(s))

IdLists == {s \in UNION {[1..n -> 1..MaxIdValue] : n \in 0..MaxIds} : Distinct(s)}

\* a Filesystem holding nodes (chunks) of the given ids, pushed in that order
FsWithNodes(ids) ==
    [NewFilesystem EXCEPT !.nodes = [i \in DOMAIN ids |-> NewNode(ids[i], "", FALSE)]]
FsWithData(ids) ==
    [NewFilesystem EXCEPT
        !.data = [i \in DOMAIN ids |-> [id |-> ids[i], key |-> 1, iv |-> 1, salt |-> 1]]]

CallNextNodeId ==
    /\ out' = [op |-> "next_node_id", val |-> next_node_id(FsWithNodes(arg))]
    /\ UNCHANGED <<fs, moves, arg, store, folder, failures>>

CallNextDataId ==
    /\ out' = [op |-> "next_data_id", val |-> next_data_id(FsWithData(arg))]
    /\ UNCHANGED <<fs, moves, arg, store, folder, failures>>

InitIds ==
    /\ fs = NewFilesystem
    /\ moves = 0
    /\ arg \in IdLists
    /\ out = NoCall
    /\ store = NoStore
    /\ folder = NoFolder
    /\ failures = 0

NextIds ==
    \/ CallNextNodeId
    \/ CallNextDataId

SpecIds == InitIds /\ [][NextIds]_vars

(***************************************************************************)
(* Path::new and Path::with_root called alone, on any absolute string      *)
(***************************************************************************)
MaxPathLen == 5      \* characters of a string given to Path::new
MaxRootLen == 3      \* characters of the remove and new_root given to with_root

PathChars == {Slash, Dot, "a", "b"}

AbsoluteStrings(n) ==
    {s \in UNION {[1..k -> PathChars] : k \in 1..n} : s[1] = Slash}

\* the new roots given to with_root: "/", "/b" and "/b/"
NewRoots == {<<Slash>>, <<Slash, "b">>, <<Slash, "b", Slash>>}

CallPathNew ==
    /\ out' = [op |-> "new", val |-> path_new(arg)]
    /\ UNCHANGED <<fs, moves, arg, store, folder, failures>>

CallWithRoot ==
    /\ path_new(arg).ok
    /\ \E old_root \in AbsoluteStrings(MaxRootLen), new_root \in NewRoots :
           out' = [op |-> "with_root", remove |-> old_root, new_root |-> new_root,
                   val |-> path_with_root(path_new(arg), old_root, new_root)]
    /\ UNCHANGED <<fs, moves, arg, store, folder, failures>>

InitPath ==
    /\ fs = NewFilesystem
    /\ moves = 0
    /\ arg \in AbsoluteStrings(MaxPathLen)
    /\ out = NoCall
    /\ store = NoStore
    /\ folder = NoFolder
    /\ failures = 0

NextPath ==
    \/ CallPathNew
    \/ CallWithRoot

SpecPath == InitPath /\ [][NextPath]_vars

(***************************************************************************)
(* The Store's public calls as actions                                     *)
(***************************************************************************)
Passwords == {"1234", "wrong"}

\* the password the store is created with
CreatePasswords == {"1234"}

Uuids == 1..NumUuids

\* regular files of the local disk: an empty one, one of more than one block
Sources == {[name |-> "a", content |-> c] : c \in {<<>>, <<7, 8, 9>>}}

\* a store path given to add, and whether it was written with a trailing slash
StorePaths ==
    {p \in {q \in Paths : Len(q) <= MaxStoreDepth} \X BOOLEAN : p[1] = <<>> => p[2]}

\* the store paths whose metadata the caller edits
MetaPaths == {<<"a">>}

Faults ==
    {NoFault, [kind |-> "open", at |-> 0], [kind |-> "save", at |-> 0]}
        \cup {[kind |-> k, at |-> i] : k \in {"read", "write"}, i \in 1..MaxReads}

\* a call may return Err only while the run has failures left
Returned(r) ==
    /\ ~r.ok => failures < MaxFailures
    /\ failures' = IF r.ok THEN failures ELSE failures + 1
    /\ folder' = r.disk
    /\ UNCHANGED <<fs, moves, arg, out>>

\* one call on the Store held by the caller: r is its outcome
StoreCall(r) ==
    /\ \A i \in DOMAIN r.st.inodes : r.st.inodes[i].id <= MaxInodeId
    /\ \A i \in DOMAIN r.st.data : r.st.data[i].id <= MaxDataId
    /\ store' = r.st
    /\ Returned(r)

\* Store::create and Store::open hand a Store to the caller only on Ok
StoreNew(r) ==
    /\ store' = IF r.ok THEN r.st ELSE store
    /\ Returned(r)

Create ==
    \E password \in CreatePasswords, salt \in Uuids, iv \in Uuids, jfail \in BOOLEAN :
        StoreNew(create(folder, password, salt, iv, jfail))

Open == \E password \in Passwords : StoreNew(open(folder, password))

Held == store.path # ""

Add ==
    /\ Held
    /\ \E src \in Sources, p \in StorePaths, fault \in Faults, u \in Uuids :
           StoreCall(add(store, folder, src, p[1], p[2], fault, u))

\* a file of a source directory by its path under the directory
Entry(rel, content) == [rel |-> rel, content |-> content]

\* directories of the local disk: one file, or two files in either order
\* walkdir may yield them in
Dirs ==
    {[name |-> "b", files |-> f] :
        f \in {<<Entry(<<"a">>, <<>>)>>,
               <<Entry(<<"a">>, <<7>>), Entry(<<"b">>, <<>>)>>,
               <<Entry(<<"b">>, <<>>), Entry(<<"a">>, <<7>>)>>}}

\* the I/O faults that can hit a file of a directory source
DirFaults == {NoFault, [kind |-> "open", at |-> 0]}

AddDir ==
    /\ Held
    /\ \E dir \in Dirs, src_slash \in BOOLEAN, p \in StorePaths, u \in Uuids :
           \E at \in 1..Len(dir.files), fault \in DirFaults :
               \E r \in {add_dir(store, folder, dir, src_slash, p[1], p[2], at, fault, u)} :
                   StoreCall(r)

Remove ==
    /\ Held
    /\ \E path \in Paths, jfail \in BOOLEAN : StoreCall(remove(store, folder, path, jfail))

MetadataSet ==
    /\ Held
    /\ \E path \in MetaPaths, key \in MetaKeys, value \in MetaValues, jfail \in BOOLEAN :
           StoreCall(metadata_set(store, folder, path, key, value, jfail))

MetadataRemove ==
    /\ Held
    /\ \E path \in MetaPaths, key \in MetaKeys, jfail \in BOOLEAN :
           StoreCall(metadata_remove(store, folder, path, key, jfail))

InitStore ==
    /\ fs = NewFilesystem
    /\ moves = 0
    /\ arg = NoIds
    /\ out = NoCall
    /\ store = NoStore
    /\ folder = NoFolder
    /\ failures = 0

NextStore ==
    \/ Create
    \/ Open
    \/ Add
    \/ Remove
    \/ MetadataSet
    \/ MetadataRemove

SpecStore == InitStore /\ [][NextStore]_vars

\* the Store with directory sources: files and directories are added and
\* paths removed
NextStoreDir ==
    \/ Create
    \/ Add
    \/ AddDir
    \/ Remove

SpecStoreDir == InitStore /\ [][NextStoreDir]_vars

(***************************************************************************)
(* Claims on the Filesystem                                                *)
(***************************************************************************)
RECURSIVE ReachFrom(_, _)
\* the ids reached from the ids in S by following graph
ReachFrom(g, S) ==
    LET next == S \cup UNION {Range(g[k]) : k \in S \cap DOMAIN g}
    IN  IF next = S THEN S ELSE ReachFrom(g, next)

NodeIdSet(f) == Range(IdsOf(f.nodes))
DataIdSet(f) == Range(IdsOf(f.data))

\* the lowest positive integer that is not in S
LowestAbsent(S) == Min({n \in 1..(Cardinality(S) + 1) : n \notin S})

\* C6: after any sequence of public calls every id in a child list of graph is
\* a node of nodes, and every node of nodes is reachable from the root id 0
\* through graph (no orphan node remains).
C6_GraphClosedNoOrphans ==
    /\ GraphValues(fs.graph) \subseteq NodeIdSet(fs)
    /\ NodeIdSet(fs) \subseteq ReachFrom(fs.graph, {0})

\* C7: every chunk id in a file's data sequence is in the chunk table, every
\* chunk of the table is referenced by exactly one file, and the ids of the
\* table are pairwise distinct.
C7_ChunkTableConsistent ==
    /\ \A i \in DOMAIN fs.nodes : Range(fs.nodes[i].data) \subseteq DataIdSet(fs)
    /\ \A j \in DOMAIN fs.data :
           Cardinality({i \in DOMAIN fs.nodes :
                           /\ fs.nodes[i].is_file
                           /\ fs.data[j].id \in Range(fs.nodes[i].data)}) = 1
    /\ Distinct(IdsOf(fs.data))

\* C7 witness: a file whose chunks were appended after an earlier chunk was
\* dropped and its id recycled, in a Filesystem a node was moved in
C7_Witness ==
    /\ moves = 1
    /\ Len(fs.data) = 2
    /\ \E i \in DOMAIN fs.nodes : fs.nodes[i].data = <<2, 1>>

\* what C8 says of one successful rm(id), id # 0, that took f to r.fs and
\* returned r.val
RmRemovesSubtree(f, id, r) ==
    LET sub == ReachFrom(f.graph, {id})
        gone == UNION {Range(f.nodes[i].data) :
                          i \in {j \in DOMAIN f.nodes : f.nodes[j].id \in sub}}
    IN  /\ ~get(r.fs, id).ok
        /\ get(r.fs, id).err = "FileDoesNotExistError"
        /\ r.fs.nodes = SelectSeq(f.nodes, LAMBDA n : n.id \notin sub)
        /\ (DOMAIN r.fs.graph) \cap sub = {}
        /\ GraphValues(r.fs.graph) \cap sub = {}
        /\ r.fs.data = SelectSeq(f.data, LAMBDA d : d.id \notin gone)
        /\ r.val = SelectSeq(f.data, LAMBDA d : d.id \in gone)

\* C8: a successful rm(id) with id # 0 removes id and its whole subtree from
\* nodes and graph (get(id) then fails with FileDoesNotExist), removes from the
\* chunk table exactly the chunks of the removed files and returns exactly
\* those; the nodes outside the subtree and their chunks are unchanged.
C8_RmRemovesExactlySubtree ==
    \A id \in NodeIds \ {0} :
        \A r \in rm(fs, id) : r.ok => RmRemovesSubtree(fs, id, r)

\* the same statement in the states no mv has produced
C8_HoldsWithoutMv == (moves = 0) => C8_RmRemovesExactlySubtree

Front(p) == SubSeq(p, 1, Len(p) - 1)

\* the paths of f that lead to a node without children
LeafPaths(f) ==
    {p \in Paths : /\ Len(p) >= 1
                   /\ Resolve(f, 0, p) > 0
                   /\ Children(f, Resolve(f, 0, p)) = <<>>}

\* the ids touch returns for a name that is new under the parent of the leaf
\* at p, right after a successful rm of that leaf
TouchAfterRm(f, p) ==
    {touch(r.fs, Front(p) \o <<n>>).val :
        r \in {x \in rm(f, Resolve(f, 0, p)) : x.ok /\ exists(x.fs, Front(p))},
        n \in {m \in Names : ~exists(f, Front(p) \o <<m>>)}}

\* C11 as stated: after rm of a leaf node, the next touch of a new name under
\* the same parent returns the id that the removed leaf had.
C11_TouchAfterRmReusesLeafId ==
    \A p \in LeafPaths(fs) : TouchAfterRm(fs, p) \subseteq {Resolve(fs, 0, p)}

\* C11 amended: after rm of a leaf node whose parent is a directory that the
\* rm leaves in place, the next touch of a new name under that parent returns
\* the lowest id that is free after the rm; that is the id the removed leaf
\* had when rm freed it and every lower id is in use.
C11_TouchAfterRmTakesLowestFreeId ==
    \A p \in LeafPaths(fs) :
        LET leaf == Resolve(fs, 0, p)
        IN  \A r \in rm(fs, leaf), n \in Names :
                (/\ r.ok
                 /\ mkdirp(r.fs, Front(p)).ok
                 /\ mkdirp(r.fs, Front(p)).fs = r.fs
                 /\ ~exists(fs, Front(p) \o <<n>>))
                => LET t == touch(r.fs, Front(p) \o <<n>>)
                   IN  /\ t.ok
                       /\ t.val = LowestAbsent(NodeIdSet(r.fs))
                       /\ (/\ leaf \notin NodeIdSet(r.fs)
                           /\ 1..(leaf - 1) \subseteq NodeIdSet(r.fs)) => t.val = leaf

\* the statement of C11 in the states no mv has produced
C11_ReusesLeafIdWithoutMv == (moves = 0) => C11_TouchAfterRmReusesLeafId

\* C11 witness: the leaf /b has id 3 while id 1 is free, so that the touch
\* after rm(3) returns 1
C11_Witness ==
    /\ <<"b">> \in LeafPaths(fs)
    /\ Resolve(fs, 0, <<"b">>) = 3
    /\ 1 \notin NodeIdSet(fs)
    /\ TouchAfterRm(fs, <<"b">>) = {1}

\* what C12 says of one successful mv(id, parent) that took f to g, with old
\* the parent id was found under
MvFrame(f, g, id, parent, old) ==
    LET rest == Without(Children(f, old), id)
    IN  /\ id \notin Range(Children(g, old)) \/ old = parent
        /\ Children(g, parent) =
               <<id>> \o (IF old = parent THEN rest ELSE Children(f, parent))
        /\ old # parent => Children(g, old) = rest
        /\ \A k \in (DOMAIN f.graph \cup DOMAIN g.graph) \ {old, parent} :
               Children(g, k) = Children(f, k)
        /\ Cardinality(ParentsOf(g, id)) = 1

\* C12: a successful mv(id, new_parent) removes id from its previous parent's
\* child list and makes the new parent's list id followed by the new parent's
\* previous children; the previous parent keeps its other children, every
\* other child list is unchanged and id is in exactly one child list.
C12_MvFrameEffect ==
    \A id \in NodeIds, parent \in NodeIds :
        \A r \in mv(fs, id, parent) :
            r.ok => \E old \in ParentsOf(fs, id) : MvFrame(fs, r.fs, id, parent, old)

\* the case of test_filesystem_mv, where C12 does hold: no mv came before, id
\* is the only child of its parent and the new parent has no children
C12_HoldsForOnlyChildIntoEmpty ==
    \A id \in NodeIds, parent \in NodeIds :
        \A r \in mv(fs, id, parent) :
            (/\ r.ok
             /\ moves = 0
             /\ Children(fs, parent) = <<>>
             /\ \A old \in ParentsOf(fs, id) : Children(fs, old) = <<id>>)
            => \E old \in ParentsOf(fs, id) : MvFrame(fs, r.fs, id, parent, old)

\* the nodes of g that f did not have, g keeping the nodes of f in place
NewNodes(f, g) == SubSeq(g.nodes, Len(f.nodes) + 1, Len(g.nodes))

KeepsNodes(f, g) ==
    /\ Len(g.nodes) >= Len(f.nodes)
    /\ SubSeq(g.nodes, 1, Len(f.nodes)) = f.nodes

\* the number of leading components of path that exist in f
Existing(f, path) ==
    Cardinality({k \in 1..Len(path) : exists(f, SubSeq(path, 1, k))})

\* C18: mkdirp is idempotent: mkdirp(p) creates every missing directory of p,
\* so that exists(p) holds afterwards, and calling it again returns the same
\* id and leaves the nodes, the chunks and the graph unchanged.
C18_MkdirpIdempotent ==
    \A path \in Paths :
        LET r == mkdirp(fs, path)
            again == mkdirp(r.fs, path)
        IN  r.ok =>
                /\ exists(r.fs, path)
                /\ Resolve(r.fs, 0, path) = r.val
                /\ KeepsNodes(fs, r.fs)
                /\ Len(NewNodes(fs, r.fs)) = Len(path) - Existing(fs, path)
                /\ \A i \in DOMAIN NewNodes(fs, r.fs) :
                       NewNodes(fs, r.fs)[i]
                           = NewNode(NewNodes(fs, r.fs)[i].id,
                                     path[Existing(fs, path) + i], FALSE)
                /\ r.fs.data = fs.data
                /\ again.ok
                /\ again.val = r.val
                /\ again.fs = r.fs

\* C18 witness: /a/b was made by mkdirp, which returns its id 2 again and
\* changes nothing, while /b is still to be made
C18_Witness ==
    /\ mkdirp(fs, <<"a", "b">>) = Ok(2, fs)
    /\ ~FindNode(fs, 1).is_file /\ ~FindNode(fs, 2).is_file
    /\ ~exists(fs, <<"b">>)
    /\ mkdirp(fs, <<"b">>).ok

\* path has a file among the first n of its components, as the walk of
\* mkdirp meets them
MeetsFile(f, path, n) ==
    \E k \in 1..n :
        /\ exists(f, SubSeq(path, 1, k))
        /\ FindNode(f, Resolve(f, 0, SubSeq(path, 1, k))).is_file

\* r is the failure C19 requires of a call made on the Filesystem f
FailsUnchanged(f, r) ==
    /\ ~r.ok
    /\ r.err = "CannotCreateDirectoryError"
    /\ r.fs = f

\* C19: mkdirp(p) and touch(p) fail with CannotCreateDirectory whenever a
\* component they have to traverse or create as a directory resolves to an
\* existing file, and then no node and no graph edge is created: the
\* Filesystem is unchanged.
C19_FileOnPathFails ==
    \A path \in Paths :
        /\ MeetsFile(fs, path, Len(path)) => FailsUnchanged(fs, mkdirp(fs, path))
        /\ MeetsFile(fs, path, Len(path) - 1) => FailsUnchanged(fs, touch(fs, path))

\* C19 witness: /a is a file, so that mkdirp("/a"), mkdirp("/a/b") and
\* touch("/a/b") fail while touch("/a") returns the file
C19_Witness ==
    /\ exists(fs, <<"a">>)
    /\ FindNode(fs, Resolve(fs, 0, <<"a">>)).is_file
    /\ FailsUnchanged(fs, mkdirp(fs, <<"a">>))
    /\ FailsUnchanged(fs, mkdirp(fs, <<"a", "b">>))
    /\ FailsUnchanged(fs, touch(fs, <<"a", "b">>))
    /\ touch(fs, <<"a">>).ok

\* C20: touch(p) returns the id of the existing child of p's parent with that
\* name and leaves the node unchanged; otherwise it creates exactly one new
\* node with is_file = true, size 0 and empty data and returns its id.
\* Touching the same path twice returns the same id and creates no second
\* node.  The parent is what mkdirp makes of the path above p.
C20_TouchReturnsOrCreatesOne ==
    \A path \in Paths \ {<<>>} :
        LET name == path[Len(path)]
            made == mkdirp(fs, Front(path))
            r == touch(fs, path)
            again == touch(r.fs, path)
        IN  r.ok =>
                /\ made.ok
                /\ exists(fs, Front(path)) => made.fs = fs
                /\ IF FindChild(made.fs, made.val, name) # NoNode
                   THEN /\ r.fs = made.fs
                        /\ r.val \in Range(Children(made.fs, made.val))
                        /\ FindNode(r.fs, r.val).name = name
                   ELSE /\ KeepsNodes(made.fs, r.fs)
                        /\ Len(NewNodes(made.fs, r.fs)) = 1
                        /\ r.val \notin NodeIdSet(made.fs)
                        /\ LET node == NewNodes(made.fs, r.fs)[1]
                           IN  /\ node.id = r.val
                               /\ node.name = name
                               /\ node.is_file
                               /\ node.size = 0
                               /\ node.data = <<>>
                        /\ r.val \in Range(Children(r.fs, made.val))
                        /\ r.fs.data = fs.data
                /\ again.ok
                /\ again.val = r.val
                /\ again.fs = r.fs

\* C20 witness: /a is the file 1 made by touch, which returns 1 again and
\* changes nothing, while touch("/b") would make one new file
C20_Witness ==
    /\ touch(fs, <<"a">>) = Ok(1, fs)
    /\ FindNode(fs, 1).is_file
    /\ ~exists(fs, <<"b">>)
    /\ Len(touch(fs, <<"b">>).fs.nodes) = Len(fs.nodes) + 1

\* the string a caller writes for the path of the given components
PathString(comps) == <<Slash>> \o JoinNames(comps)

RECURSIVE WalkReaches(_, _, _)
\* the ids a walk of graph from node_id can reach by matching each component
\* by name among the current children
WalkReaches(f, node_id, comps) ==
    IF comps = <<>> THEN {node_id}
    ELSE UNION {WalkReaches(f, c, Tail(comps))
                   : c \in {c \in Range(Children(f, node_id)) :
                               /\ FindNode(f, c) # NoNode
                               /\ FindNode(f, c).name = Head(comps)}}

\* exists(p) is true exactly when the walk of graph reaches a node
ExistsIsTheWalk(f) ==
    \A p \in Paths :
        /\ exists_str(f, PathString(p)).ok
        /\ exists_str(f, PathString(p)).val = (WalkReaches(f, 0, p) # {})

\* path(id) of every live node starts with "/", exists and resolves to id
PathResolvesBack(f) ==
    \A id \in NodeIdSet(f) : \A r \in fs_path(f, id) :
        /\ r.ok
        /\ r.val[1] = Slash
        /\ exists_str(f, r.val) = Ok(TRUE, f)
        /\ path_new(r.val).ok
        /\ WalkReaches(f, 0, [i \in DOMAIN path_components(path_new(r.val))
                                |-> NameOf(path_components(path_new(r.val))[i])])
               = {id}

\* path(id) of the id touch(p) returns is p
TouchedPathIsPath(f) ==
    \A p \in Paths :
        LET t == touch(f, p)
        IN  t.ok => \A r \in fs_path(t.fs, t.val) : r.ok /\ r.val = PathString(p)

\* C21: path resolution and path() are inverse: after any sequence of
\* successful public calls, exists(p) is true exactly when walking graph from
\* the root and matching each component of p by name among the current
\* children reaches a node, and for every live node id, path(id) starts with
\* "/", exists(path(id)) is true and resolving path(id) reaches id; for the id
\* returned by touch(p), path(id) = p.
C21_PathAndResolutionInverse ==
    /\ ExistsIsTheWalk(fs)
    /\ PathResolvesBack(fs)
    /\ TouchedPathIsPath(fs)

\* the same statement in the runs that never call mv
C21_HoldsWithoutMv == moves = 0 => C21_PathAndResolutionInverse

\* C22: for every file, get(id) returns the resolved chunk descriptors in the
\* same order as the node's data sequence (content order), after any sequence
\* of append, rm, truncate and sort calls, including when chunk ids were
\* recycled so that the data sequence is not ascending.
C22_GetKeepsContentOrder ==
    \A i \in DOMAIN fs.nodes :
        fs.nodes[i].is_file =>
            /\ get(fs, fs.nodes[i].id).ok
            /\ IdsOf(get(fs, fs.nodes[i].id).val.data) = fs.nodes[i].data

\* the same statement where the chunk table stands in the order the chunks
\* were appended in, as it does until sort is called
C22_HoldsInAppendOrder ==
    (\A i \in DOMAIN fs.nodes :
        fs.nodes[i].data = SelectSeq(IdsOf(fs.data),
                                     LAMBDA c : c \in Range(fs.nodes[i].data)))
    => C22_GetKeepsContentOrder

\* every directory node of f has an empty data sequence and size 0
DirsAreBare(f) ==
    \A i \in DOMAIN f.nodes :
        ~f.nodes[i].is_file => f.nodes[i].data = <<>> /\ f.nodes[i].size = 0

\* the ids that name no file: the root, the directories and the ids of no node
NotFiles(f) == {id \in NodeIds : FindNode(f, id) = NoNode \/ ~FindNode(f, id).is_file}

\* C23: after any sequence of public calls every directory node has is_file =
\* false, an empty data sequence and size 0: set_size on a directory fails
\* with InternalStructure and append on a directory fails, each leaving the
\* Filesystem unchanged.  The calls that are no action of this specification
\* (mv, the metadata and the tag calls) are applied to every state reached.
C23_DirectoriesStayBare ==
    /\ DirsAreBare(fs)
    /\ \A id \in NotFiles(fs) :
           /\ \A size \in Sizes :
                  set_size(fs, id, size) = Err("InternalStructureError", fs)
           /\ \A d \in ChunkInputs :
                  ~append(fs, id, d).ok /\ append(fs, id, d).fs = fs
    /\ \A id \in NodeIds :
           /\ \A parent \in NodeIds : \A r \in mv(fs, id, parent) : DirsAreBare(r.fs)
           /\ \A k \in MetaKeys, v \in MetaValues :
                  /\ DirsAreBare(set_metadata(fs, id, k, v).fs)
                  /\ DirsAreBare(rm_metadata(fs, id, k).fs)
           /\ \A t \in Tags :
                  /\ DirsAreBare(add_tag(fs, id, t).fs)
                  /\ DirsAreBare(rm_tag(fs, id, t).fs)
                  /\ DirsAreBare(clear_tag(fs, id).fs)

\* C23 witness: /a is a directory next to the file /b, whose size was set
\* and which holds a chunk, and both calls fail on the directory
C23_Witness ==
    \E d \in DOMAIN fs.nodes, g \in DOMAIN fs.nodes :
        /\ ~fs.nodes[d].is_file
        /\ fs.nodes[g].is_file /\ fs.nodes[g].size = 1 /\ fs.nodes[g].data # <<>>
        /\ ~set_size(fs, fs.nodes[d].id, 1).ok
        /\ ~append(fs, fs.nodes[d].id, CHOOSE c \in ChunkInputs : TRUE).ok

\* the Filesystems one further call other than set_metadata and rm_metadata
\* can leave
AfterOtherCall(f) ==
    {touch(f, p).fs : p \in Paths} \cup {mkdirp(f, p).fs : p \in Paths}
        \cup UNION {{r.fs : r \in rm(f, id)} : id \in NodeIds}
        \cup UNION {{r.fs : r \in mv(f, id, parent)} : id \in NodeIds, parent \in NodeIds}
        \cup {append(f, id, d).fs : id \in NodeIds, d \in ChunkInputs}
        \cup {truncate(f, id).fs : id \in NodeIds}
        \cup {set_size(f, id, size).fs : id \in NodeIds, size \in Sizes}
        \cup {add_tag(f, id, t).fs : id \in NodeIds, t \in Tags}
        \cup {rm_tag(f, id, t).fs : id \in NodeIds, t \in Tags}
        \cup {clear_tag(f, id).fs : id \in NodeIds}
        \cup {sort(f)}

\* map semantics of the metadata of the Filesystem f
VfsMetadataIsMap(f) ==
    \A id \in NodeIds, k \in MetaKeys :
        /\ \A v \in Values :
               LET s == set_metadata(f, id, k, v)
               IN  s.ok => get_metadata(s.fs, id, k) = Ok(v, s.fs)
        /\ get_metadata(f, id, k).ok =>
               /\ \A g \in AfterOtherCall(f) :
                      FindNode(g, id) # NoNode =>
                          get_metadata(g, id, k) = Ok(get_metadata(f, id, k).val, g)
               /\ rm_metadata(f, id, k).ok
               /\ get_metadata(rm_metadata(f, id, k).fs, id, k)
                      = Err("NoSuchMetadataKey", rm_metadata(f, id, k).fs)
        /\ (FindNode(f, id) # NoNode /\ ~MapHas(FindNode(f, id).metadata, k)) =>
               /\ get_metadata(f, id, k) = Err("NoSuchMetadataKey", f)
               /\ rm_metadata(f, id, k) = Err("NoSuchMetadataKey", f)

\* the same through the Store's metadata_set, metadata_get, metadata_remove
StoreMetadataIsMap(st, disk) ==
    \A path \in Paths, k \in MetaKeys :
        LET inode == inode_with_path(st, path)
        IN  /\ \A v \in MetaValues :
                   LET s == metadata_set(st, disk, path, k, v, FALSE)
                   IN  s.ok => /\ metadata_get(s.st, path, k).ok
                               /\ metadata_get(s.st, path, k).val = v
            /\ (inode.id # -1 /\ ~MapHas(inode.metadata, k)) =>
                   /\ ~metadata_get(st, path, k).ok
                   /\ metadata_get(st, path, k).err = "NoSuchMetadataKey"
                   /\ metadata_remove(st, disk, path, k, FALSE)
                          = SErr("NoSuchMetadataKey", st, disk)

\* C24: metadata has map semantics: after set_metadata(id, k, v),
\* get_metadata(id, k) returns v until k is set again or removed; get and
\* remove of a key that is absent fail with NoSuchMetadataKey and change
\* nothing, both in the Filesystem and through the Store's metadata_get and
\* metadata_remove.
C24_MetadataMapSemantics ==
    /\ VfsMetadataIsMap(fs)
    /\ Held => StoreMetadataIsMap(store, folder)

\* the Filesystem's half of C24
C24_HoldsInFilesystem == VfsMetadataIsMap(fs)

\* C24 in the Store with the error the Store reports in place of
\* NoSuchMetadataKey, and remove of an absent key succeeding
C24_StoreMapWithItsOwnErrors ==
    Held =>
        \A path \in Paths, k \in MetaKeys :
            LET inode == inode_with_path(store, path)
            IN  /\ \A v \in MetaValues :
                       LET s == metadata_set(store, folder, path, k, v, FALSE)
                       IN  s.ok => /\ metadata_get(s.st, path, k).ok
                                   /\ metadata_get(s.st, path, k).val = v
                /\ (inode.id # -1 /\ ~MapHas(inode.metadata, k)) =>
                       /\ ~metadata_get(store, path, k).ok
                       /\ metadata_get(store, path, k).err = "InternalStructureError"
                       /\ metadata_remove(store, folder, path, k, FALSE).ok

\* the outcomes of the Store's calls that take a store path, made on path:
\* each with its error and with the Store and the folder it leaves
PathCalls(st, disk, path) ==
    LET Left(r) == [ok |-> r.ok, err |-> r.err, st |-> r.st, disk |-> r.disk]
        Read(r) == [ok |-> r.ok, err |-> r.err, st |-> st, disk |-> disk]
    IN  {Left(store_get(st, disk, path))}
            \cup {Left(remove(st, disk, path, jfail)) : jfail \in BOOLEAN}
            \cup {Left(metadata_set(st, disk, path, k, v, jfail))
                     : k \in MetaKeys, v \in MetaValues, jfail \in BOOLEAN}
            \cup {Left(metadata_remove(st, disk, path, k, jfail))
                     : k \in MetaKeys, jfail \in BOOLEAN}
            \cup {Read(list(st, path)), Read(metadata_list(st, path))}
            \cup {Read(metadata_get(st, path, k)) : k \in MetaKeys}

\* the store paths that resolve to no inode
MissingPaths(st) == {path \in Paths : inode_with_path(st, path).id = -1}

\* C25: every Store operation that takes a store path (get, list, remove,
\* metadata_set, metadata_get, metadata_list, metadata_remove) fails with
\* FileDoesNotExist when the path does not resolve to a node, and then leaves
\* the inode table, the journal and the chunk files unchanged.
C25_MissingPathIsFileDoesNotExist ==
    Held =>
        \A path \in MissingPaths(store) : \A r \in PathCalls(store, folder, path) :
            /\ ~r.ok
            /\ r.err = "FileDoesNotExistError"
            /\ r.st = store
            /\ r.disk = folder

\* the same with the error the Store reports for such a path
C25_MissingPathFailsAndChangesNothing ==
    Held =>
        \A path \in MissingPaths(store) : \A r \in PathCalls(store, folder, path) :
            /\ ~r.ok
            /\ r.err = "InternalStructureError"
            /\ r.st = store
            /\ r.disk = folder

\* the place of tag x in the tag sequence s
TagPlace(s, x) == CHOOSE i \in DOMAIN s : s[i] = x

\* the tags of new are tags of old, in the order they have in old
KeepsTagOrder(old, new) ==
    /\ Range(new) \subseteq Range(old)
    /\ \A i \in DOMAIN new, j \in DOMAIN new :
           i < j => TagPlace(old, new[i]) < TagPlace(old, new[j])

\* the nodes of g are those of f, but for the tags of the node id
OnlyTagsOf(f, g, id) ==
    /\ g.graph = f.graph /\ g.data = f.data
    /\ Len(g.nodes) = Len(f.nodes)
    /\ \A i \in DOMAIN f.nodes :
           IF f.nodes[i].id = id
           THEN [g.nodes[i] EXCEPT !.tags = <<>>] = [f.nodes[i] EXCEPT !.tags = <<>>]
           ELSE g.nodes[i] = f.nodes[i]

\* C26: after any sequence of add_tag, rm_tag and clear_tag calls each node's
\* tag sequence has no duplicates and keeps insertion order: add_tag of a tag
\* already present changes nothing and a new tag goes to the end, rm_tag of an
\* absent tag succeeds and changes nothing and rm_tag of a present tag takes
\* out that tag alone, and clear_tag leaves the node with no tags.
C26_TagsAreOrderedSets ==
    /\ \A i \in DOMAIN fs.nodes : Len(fs.nodes[i].tags) = Cardinality(Range(fs.nodes[i].tags))
    /\ \A i \in DOMAIN fs.nodes : \A tag \in Tags :
           LET node == fs.nodes[i]
               added == add_tag(fs, node.id, tag)
               removed == rm_tag(fs, node.id, tag)
               cleared == clear_tag(fs, node.id)
               After(r) == FindNode(r.fs, node.id).tags
           IN  /\ added.ok /\ removed.ok /\ cleared.ok
               /\ OnlyTagsOf(fs, added.fs, node.id)
               /\ OnlyTagsOf(fs, removed.fs, node.id)
               /\ OnlyTagsOf(fs, cleared.fs, node.id)
               /\ tag \in Range(node.tags) => added.fs = fs
               /\ tag \notin Range(node.tags) =>
                      /\ Len(After(added)) = Len(node.tags) + 1
                      /\ After(added)[Len(node.tags) + 1] = tag
                      /\ \A k \in DOMAIN node.tags : After(added)[k] = node.tags[k]
               /\ tag \notin Range(node.tags) => removed.fs = fs
               /\ tag \in Range(node.tags) =>
                      /\ Range(After(removed)) = Range(node.tags) \ {tag}
                      /\ KeepsTagOrder(node.tags, After(removed))
               /\ After(cleared) = <<>>

\* a node holds two tags, so that a present tag is added again and removed,
\* and a node holds none, so that an absent tag is removed
C26_Witness ==
    \E i \in DOMAIN fs.nodes, j \in DOMAIN fs.nodes :
        /\ Len(fs.nodes[i].tags) = 2
        /\ fs.nodes[j].tags = <<>>
        /\ add_tag(fs, fs.nodes[i].id, fs.nodes[i].tags[1]).ok
        /\ rm_tag(fs, fs.nodes[i].id, fs.nodes[i].tags[1]).ok
        /\ rm_tag(fs, fs.nodes[j].id, fs.nodes[i].tags[1]).ok
        /\ clear_tag(fs, fs.nodes[i].id).ok

\* the query strings given to search_tag, and the query lists
QueryTags == Tags \cup {<<"!", "t">>, <<"!", "u">>, <<"!", "t", "!">>}
MaxQueries == 2
Queries == UNION {[1..n -> QueryTags] : n \in 0..MaxQueries}

\* a query that asks for the absence of a tag
Excludes(q) == q # <<>> /\ q[1] = "!"

\* the node has every tag the queries ask for and none of those they exclude,
\* an excluding query naming the tag that follows its first character
MatchesQueries(node, queries) ==
    \A i \in DOMAIN queries :
        IF Excludes(queries[i]) THEN Tail(queries[i]) \notin Range(node.tags)
        ELSE queries[i] \in Range(node.tags)

\* search_tag(queries) on f returns the matching nodes, each once
SearchReturnsMatches(f, queries) ==
    LET found == search_tag(f, queries)
    IN  /\ ~found.panics
        /\ found.files # {}
        /\ \A files \in found.files :
               /\ {files[i].id : i \in DOMAIN files}
                      = {f.nodes[i].id : i \in {i \in DOMAIN f.nodes : MatchesQueries(f.nodes[i], queries)}}
               /\ Len(files) = Cardinality({files[i].id : i \in DOMAIN files})

\* C27: search_tag(queries) returns exactly the nodes that contain every
\* include tag (the queries without a leading '!') and none of the exclude
\* tags (the queries with a leading '!', that one character stripped), for
\* every query list, also one that repeats a tag or whose exclude tag holds a
\* further '!'.
C27_SearchTagReturnsMatches ==
    \A queries \in Queries : SearchReturnsMatches(fs, queries)

\* a query list that names no include tag twice and no exclude tag with a
\* second '!'
PlainQueries(queries) ==
    /\ \A i \in DOMAIN queries, j \in DOMAIN queries :
           (i # j /\ ~Excludes(queries[i])) => queries[i] # queries[j]
    /\ \A i \in DOMAIN queries :
           Excludes(queries[i]) => "!" \notin Range(Tail(queries[i]))

\* the same holds of the query lists that are plain
C27_HoldsForPlainQueries ==
    \A queries \in Queries : PlainQueries(queries) => SearchReturnsMatches(fs, queries)

(***************************************************************************)
(* Claims on the id allocators                                             *)
(***************************************************************************)
\* C10: next_node_id() returns the lowest positive integer that is not the id
\* of a node, and next_data_id() the lowest that is not the id of a chunk, for
\* every list of distinct positive ids in any storage order.
C10_LowestAbsentId ==
    out.op \in {"next_node_id", "next_data_id"} => out.val = LowestAbsent(Range(arg))

\* C10 witness: ids stored out of order with a hole below the largest
C10_Witness ==
    /\ arg = <<3, 1>>
    /\ out = [op |-> "next_node_id", val |-> 2]

(***************************************************************************)
(* Claims on the Store                                                     *)
(***************************************************************************)
\* the outcomes of the mutating calls a caller holding the Store can make now
AddOutcomes ==
    {add(store, folder, src, p[1], p[2], fault, u) :
        src \in Sources, p \in StorePaths, fault \in Faults, u \in Uuids}

MutatingOutcomes ==
    AddOutcomes
        \cup {remove(store, folder, path, jfail) : path \in Paths, jfail \in BOOLEAN}
        \cup {metadata_set(store, folder, path, key, value, jfail) :
                path \in Paths, key \in MetaKeys, value \in MetaValues, jfail \in BOOLEAN}
        \cup {metadata_remove(store, folder, path, key, jfail) :
                path \in Paths, key \in MetaKeys, jfail \in BOOLEAN}

CreateOutcomes ==
    {create(folder, password, salt, iv, jfail) :
        password \in Passwords, salt \in Uuids, iv \in Uuids, jfail \in BOOLEAN}

\* the journal opens under the password of the Store st and yields st itself:
\* the same inodes and chunk descriptors in the same order, the same key material
JournalHolds(st, disk) ==
    /\ open(disk, st.key.pswd).ok
    /\ open(disk, st.key.pswd).st = st

AddedINode(st) == inode_with_id(st, Max(Range(IdsOf(st.inodes))))

\* C2: after a successful add of a source file, get of the stored file, by its
\* path in the store, writes one output file whose bytes are the source's: the
\* decrypted chunks, concatenated in the order of the file's data, equal the
\* source content, for a file of several chunks and for an empty file.
C2_GetAfterAddIsIdentical ==
    Held =>
        \A src \in Sources, p \in StorePaths, u \in Uuids :
            LET r == add(store, folder, src, p[1], p[2], NoFault, u)
                file == AddedINode(r.st)
                got == store_get(r.st, r.disk, path_for_inode(r.st, file))
            IN  r.ok =>
                    /\ file.is_file /\ file.size = Len(src.content)
                    /\ ReadChunks(r.st, r.disk, file.data).ok
                    /\ ReadChunks(r.st, r.disk, file.data).val = src.content
                    /\ got.ok
                    /\ got.val = <<[path |-> OutPath, content |-> src.content]>>

\* a stored file of two chunks that get returns whole, next to an empty one
C2_Witness ==
    /\ Held
    /\ store_get(store, folder, <<"b", "a">>).ok
    /\ store_get(store, folder, <<"b", "a">>).val
           = <<[path |-> OutPath, content |-> <<7, 8, 9>>]>>
    /\ store_get(store, folder, <<"a">>).ok
    /\ store_get(store, folder, <<"a">>).val = <<[path |-> OutPath, content |-> <<>>]>>

\* the outcomes of an add whose at-th read fails after at - 1 chunks were
\* written, with the Store and folder the add started from
ReadFailures ==
    {add(store, folder, src, p[1], p[2], [kind |-> "read", at |-> at], u) :
        src \in Sources, p \in StorePaths, at \in 2..MaxReads, u \in Uuids}

\* C3: if a read of the source fails during add after one or more chunks were
\* written, add returns CannotReadFileError, the inodes and the chunk
\* descriptors in memory are those from before the add, and the folder holds
\* the chunk files from before the add.
C3_ReadFailureRollsBack ==
    Held =>
        \A r \in ReadFailures :
            r.err = "CannotReadFileError" =>
                /\ Range(r.st.inodes) = Range(store.inodes)
                /\ Range(r.st.data) = Range(store.data)
                /\ r.disk.parts = folder.parts

\* what does hold on that path while no earlier call has failed: the inodes
\* of an add into an existing directory and the chunk files are rolled back
C3_ReadFailureRemovesFiles ==
    (Held /\ failures = 0) =>
        \A r \in ReadFailures :
            r.err = "CannotReadFileError" =>
                /\ r.disk.parts = folder.parts
                /\ Range(store.data) \subseteq Range(r.st.data)

\* the outcomes of an add whose at-th chunk write fails
WriteFailures ==
    {add(store, folder, src, p[1], p[2], [kind |-> "write", at |-> at], u) :
        src \in Sources, p \in StorePaths, at \in 1..MaxReads, u \in Uuids}

\* C4: if writing a chunk file fails during add, add returns
\* CannotWriteFileError, the inodes and the chunk descriptors in memory are
\* those from before the add (no node, descriptor or directory made by the add
\* survives), and the chunk files this add wrote are removed.
C4_WriteFailureRollsBack ==
    Held =>
        \A r \in WriteFailures :
            r.err = "CannotWriteFileError" =>
                /\ Range(r.st.inodes) = Range(store.inodes)
                /\ Range(r.st.data) = Range(store.data)
                /\ r.disk.parts = folder.parts

\* what does hold on that path while no earlier call has failed: descriptors
\* and chunk files are rolled back
C4_WriteFailureRemovesChunks ==
    (Held /\ failures = 0) =>
        \A r \in WriteFailures :
            r.err = "CannotWriteFileError" =>
                /\ Range(r.st.data) = Range(store.data)
                /\ r.disk.parts = folder.parts

\* the password sealed into a journal that save has written
JournalPassword == fb_deserialize(folder.journal).val.inodes.key.pswd

LiveChunks(st) ==
    UNION {Range(st.inodes[i].data) : i \in {j \in DOMAIN st.inodes : st.inodes[j].is_file}}

\* C9: after any sequence of add and remove calls that all returned Ok, the
\* chunk files in the store folder are exactly the files of the chunk ids that
\* the surviving file inodes name.
C9_ChunkFilesAreLiveChunks ==
    (Held /\ failures = 0) =>
        PartNames(folder) = {PartName(id) : id \in LiveChunks(store)}

\* what does hold: no chunk file is left that no surviving file names
C9_NoOrphanChunkFile ==
    (Held /\ failures = 0) =>
        PartNames(folder) \subseteq {PartName(id) : id \in LiveChunks(store)}

\* the file of the Store st at path target is inode, under directories only
FileLandsAt(st, inode, target) ==
    /\ inode.is_file
    /\ path_for_inode(st, inode) = target
    /\ inode_with_path(st, target) = inode
    /\ \A k \in 0..(Len(target) - 1) :
           /\ inode_with_path(st, SubSeq(target, 1, k)).id # -1
           /\ ~inode_with_path(st, SubSeq(target, 1, k)).is_file

\* no proper prefix of path is a file of the Store st
NoFileAbove(st, path) ==
    \A k \in 0..(Len(path) - 1) : ~inode_with_path(st, SubSeq(path, 1, k)).is_file

\* the successful adds of a regular file from the Store held, each with the
\* source, the store path and the slash flag it was called with
FileAdds ==
    {[src |-> src, store_path |-> p[1], ends_in_slash |-> p[2],
      r |-> add(store, folder, src, p[1], p[2], NoFault, u)] :
        src \in Sources, p \in StorePaths, u \in Uuids}

\* C13: for a file source, add(source, store_path) places the new file at
\* store_path/source_name when store_path resolves to an existing directory,
\* and at store_path itself, creating the missing parent directories, when
\* store_path does not exist; store_path is "/" or written without a trailing
\* slash and has no file above it.
C13_FilePlacement ==
    Held =>
        \A c \in FileAdds :
            LET node == inode_with_path(store, c.store_path)
            IN  (/\ c.r.ok
                 /\ ~c.ends_in_slash \/ c.store_path = <<>>
                 /\ NoFileAbove(store, c.store_path)
                 /\ (node.id = -1 \/ ~node.is_file))
                => FileLandsAt(c.r.st, AddedINode(c.r.st),
                               IF node.id # -1 THEN c.store_path \o <<c.src.name>>
                               ELSE c.store_path)

\* the placement of C13 with the trailing-slash rule of add: a store path
\* written with a trailing slash names a directory whether it exists or not,
\* and the file lands at store_path/source_name
C13_FilePlacementBySlash ==
    Held =>
        \A c \in FileAdds :
            LET node == inode_with_path(store, c.store_path)
            IN  (/\ c.r.ok
                 /\ NoFileAbove(store, c.store_path)
                 /\ (node.id = -1 \/ ~node.is_file))
                => FileLandsAt(c.r.st, AddedINode(c.r.st),
                               IF node.id # -1 \/ c.ends_in_slash
                                   THEN c.store_path \o <<c.src.name>>
                                   ELSE c.store_path)

\* every directory's child list holds exactly the ids of the inodes whose
\* parent is that directory, and no inode has a file for parent
ChildListsSound(st) ==
    \A i \in DOMAIN st.inodes :
        LET d == st.inodes[i]
        IN  /\ ~inode_with_id(st, d.parent).is_file
            /\ ~d.is_file =>
                   Range(d.data) = {st.inodes[j].id : j \in {k \in DOMAIN st.inodes :
                                        /\ st.inodes[k].parent = d.id
                                        /\ st.inodes[k].id # 0}}

\* the statement of C13, and the placement under the trailing-slash rule, in
\* the Stores whose child lists are sound
C13_HoldsWithSoundChildLists ==
    ChildListsSound(store) => (C13_FilePlacement /\ C13_FilePlacementBySlash)

\* a Store where the source a was added as /b (renamed) and into the
\* directory /a, which an add to "/a/" created
C13_Witness ==
    /\ Held
    /\ inode_with_path(store, <<"b">>).is_file
    /\ ~inode_with_path(store, <<"a">>).is_file
    /\ inode_with_path(store, <<"a", "a">>).is_file
    /\ FileLandsAt(store, inode_with_path(store, <<"a", "a">>), <<"a", "a">>)

\* the two already-exists kinds of enum Error
AlreadyExistsErrors == {"FileAlreadyExistsError", "StoreFileAlreadyExistsError"}

\* the adds of a regular file, from the Store held, whose store path, or the
\* source name under it when it is a directory, resolves to a file
AddsOntoFile ==
    {c \in {[src |-> src, store_path |-> p[1], ends_in_slash |-> p[2],
             r |-> add(store, folder, src, p[1], p[2], NoFault, u)] :
                src \in Sources, u \in Uuids, p \in StorePaths} :
        LET node == inode_with_path(store, c.store_path)
        IN  \/ node.is_file
            \/ /\ node.id # -1
               /\ inode_with_path(store, c.store_path \o <<c.src.name>>).is_file}

\* C14: add(file, store_path) where store_path, or store_path/source_name
\* when store_path is a directory, already resolves to a file fails with an
\* already-exists error and leaves the inodes and chunk descriptors in memory,
\* the journal and the chunk files unchanged.
C14_AddOntoFileChangesNothing ==
    Held =>
        \A c \in AddsOntoFile :
            /\ ~c.r.ok
            /\ c.r.err \in AlreadyExistsErrors
            /\ c.r.st = store
            /\ c.r.disk = folder

\* the same statement for the store paths written without a trailing slash
C14_HoldsWithoutSlash ==
    Held =>
        \A c \in AddsOntoFile :
            ~c.ends_in_slash =>
                /\ ~c.r.ok
                /\ c.r.err = "StoreFileAlreadyExistsError"
                /\ c.r.st = store
                /\ c.r.disk = folder

\* the adds of a directory source from the Store held, without I/O fault,
\* each with the directory, the two slash flags and the store path it was
\* called with
DirAdds ==
    {[dir |-> dir, src_slash |-> src_slash, store_path |-> p[1],
      ends_in_slash |-> p[2],
      r |-> add_dir(store, folder, dir, src_slash, p[1], p[2], 1, NoFault, u)] :
        dir \in Dirs, src_slash \in BOOLEAN, p \in StorePaths, u \in Uuids}

\* after the add c every file x of the source directory is the file base/x
\* of the Store, with the size and the bytes of x
DirLandsAt(c, base) ==
    \A k \in DOMAIN c.dir.files :
        LET entry == c.dir.files[k]
            inode == inode_with_path(c.r.st, base \o entry.rel)
        IN  /\ FileLandsAt(c.r.st, inode, base \o entry.rel)
            /\ inode.size = Len(entry.content)
            /\ ReadChunks(c.r.st, c.r.disk, inode.data).ok
            /\ ReadChunks(c.r.st, c.r.disk, inode.data).val = entry.content

\* the store path of the add c is absent or a directory, under directories
Placeable(c) ==
    /\ NoFileAbove(store, c.store_path)
    /\ ~inode_with_path(store, c.store_path).is_file

\* C15: for a directory source given with a trailing slash, add("folder/",
\* "/sub") copies the contents of folder into /sub: each source file folder/x
\* lands at /sub/x, with no intermediate folder level, whether or not /sub
\* existed before.
C15_SourceSlashCopiesContents ==
    Held =>
        \A c \in DirAdds :
            (c.r.ok /\ c.src_slash /\ ~c.ends_in_slash /\ Placeable(c))
            => DirLandsAt(c, c.store_path)

\* C16: for a directory source given without a trailing slash, add("folder",
\* "/sub") lands the files at /sub/folder/x when /sub is an existing
\* directory, and at /sub/x when /sub does not exist.
C16_NoSourceSlashCopiesDirectory ==
    Held =>
        \A c \in DirAdds :
            (c.r.ok /\ ~c.src_slash /\ ~c.ends_in_slash /\ Placeable(c))
            => DirLandsAt(c, IF inode_with_path(store, c.store_path).id # -1
                                 THEN c.store_path \o <<c.dir.name>>
                                 ELSE c.store_path)

\* what add does with a directory source: the slash of the store path
\* decides, the one of the source path is ignored; a store path with a
\* trailing slash receives the directory itself, one without receives its
\* contents, in the Stores whose child lists are sound and where no source
\* file meets a directory of its name
C16_StoreSlashDecides ==
    (Held /\ ChildListsSound(store)) =>
        \A c \in DirAdds :
            LET base == IF c.ends_in_slash THEN c.store_path \o <<c.dir.name>>
                        ELSE c.store_path
            IN  (/\ c.r.ok
                 /\ c.store_path # <<>>
                 /\ Placeable(c)
                 /\ \A k \in DOMAIN c.dir.files :
                        inode_with_path(store, base \o c.dir.files[k].rel).id = -1)
                => DirLandsAt(c, base)

\* source files of every length from 0 up to two full buffers
SizedSources ==
    {[name |-> "a", content |-> [i \in 1..n |-> 7]] : n \in 0..(2 * BufferSize)}

\* the plaintext of the chunk id of the Store st, read back from its file
ChunkPlaintext(st, disk, id) ==
    decrypt(ReadPart(disk, PartName(id)).val,
            data_with_id(st, id).key, data_with_id(st, id).iv)

RECURSIVE SumLen(_, _, _)
\* the plaintext lengths of the chunks ids, added up
SumLen(st, disk, ids) ==
    IF ids = <<>> THEN 0
    ELSE Len(ChunkPlaintext(st, disk, Head(ids)).val) + SumLen(st, disk, Tail(ids))

\* C17: a successful add of a file of s bytes, every read filling the buffer
\* until the end of the file, stores it as exactly ceil(s / BufferSize)
\* chunks of at most BufferSize plaintext bytes each, one chunk file per
\* chunk, and the plaintext lengths add up to the size s of the node (no
\* chunk for an empty file).
C17_ChunkCountAndSizes ==
    Held =>
        \A src \in SizedSources, p \in StorePaths, u \in Uuids :
            LET r == add(store, folder, src, p[1], p[2], NoFault, u)
                file == AddedINode(r.st)
                s == Len(src.content)
            IN  r.ok =>
                    /\ file.is_file /\ file.size = s
                    /\ Len(file.data) = (s + BufferSize - 1) \div BufferSize
                    /\ Distinct(file.data)
                    /\ \A i \in DOMAIN file.data :
                           /\ data_with_id(r.st, file.data[i]).id # -1
                           /\ PartName(file.data[i]) \in PartNames(r.disk)
                           /\ ChunkPlaintext(r.st, r.disk, file.data[i]).ok
                           /\ Len(ChunkPlaintext(r.st, r.disk, file.data[i]).val)
                                  \in 1..BufferSize
                    /\ Cardinality({PartName(file.data[i]) : i \in DOMAIN file.data})
                           = Len(file.data)
                    /\ PartNames(r.disk) \ PartNames(folder)
                           \subseteq {PartName(file.data[i]) : i \in DOMAIN file.data}
                    /\ SumLen(r.st, r.disk, file.data) = s

\* C17 witness: the Store holds a file of three bytes in two chunks, a full
\* one and a partial one, each in its own chunk file
C17_Witness ==
    /\ Held
    /\ \E i \in DOMAIN store.inodes :
           LET file == store.inodes[i]
           IN  /\ file.is_file /\ file.size = 3 /\ Len(file.data) = 2
               /\ PartName(file.data[1]) # PartName(file.data[2])
               /\ {PartName(file.data[1]), PartName(file.data[2])}
                      \subseteq PartNames(folder)
               /\ Len(ChunkPlaintext(store, folder, file.data[1]).val) = BufferSize
               /\ Len(ChunkPlaintext(store, folder, file.data[2]).val) = 1

(***************************************************************************)
(* Claims on Path                                                          *)
(***************************************************************************)
\* s without a trailing slash
Unslashed(s) == IF EndsWithSlash(s) THEN SubSeq(s, 1, Len(s) - 1) ELSE s

\* pre is a prefix of s that ends at a component boundary of s
IsRootOf(pre, s) ==
    /\ Len(pre) <= Len(s)
    /\ SubSeq(s, 1, Len(pre)) = pre
    /\ Len(pre) = Len(s) \/ s[Len(pre) + 1] = Slash

\* what C29 requires of the Path r returned by self.with_root(old_root,
\* new_root)
WithRootAsClaimed(self, old_root, new_root, r) ==
    LET pre == Unslashed(old_root)
        rest == SubSeq(self.path, Len(pre) + 1, Len(self.path))
    IN  IF IsRootOf(pre, self.path)
        THEN /\ r.ok
             /\ r.path = AbsString(Components(new_root \o rest))
        ELSE ~r.ok

\* C29: with_root(remove, new_root) returns None unless remove is a prefix of
\* self.path that ends at a component boundary (it is followed by '/' or by
\* the end of the string); when it is, the result is new_root joined with the
\* remainder of the path.
C29_WithRootOnlyAtPrefix ==
    out.op = "with_root" =>
        WithRootAsClaimed(path_new(arg), out.remove, out.new_root, out.val)

\* with_root does as C29 says wherever remove does not occur in the path
\* past its start
C29_HoldsWhenRemoveOccursOnlyAtStart ==
    (/\ out.op = "with_root"
     /\ Occurrences(path_new(arg).path, Unslashed(out.remove)) \subseteq {0})
    => WithRootAsClaimed(path_new(arg), out.remove, out.new_root, out.val)

\* what C30 requires of the Path p returned by Path::new(s)
NormalizedAsClaimed(s, p) ==
    LET comps == Absolutize(Components(s), <<>>)
    IN  /\ p.ok
        /\ p.path = AbsString(comps)
        /\ p.name = (IF comps = <<>> THEN <<>> ELSE comps[Len(comps)])
        /\ p.parent = AbsString(SubSeq(comps, 1, Len(comps) - 1))
        /\ path_new(p.path) = p

\* C30: Path::new normalizes every absolute input built from names, '.',
\* '..', repeated '/' and an optional trailing '/': the result has path = the
\* collapsed absolute path with no trailing '/' (except root), name = the last
\* component of that path ('' for root) and parent = that path without its
\* last component ('/' for root and top-level entries), and normalizing the
\* result's path again yields the same Path.
C30_PathNewNormalizes ==
    out.op = "new" => NormalizedAsClaimed(arg, out.val)

\* Path::new does as C30 says on every input whose last component is not
\* ".."
C30_HoldsUnlessLastIsParentDir ==
    LET raw == Components(arg)
    IN  (out.op = "new" /\ (raw = <<>> \/ raw[Len(raw)] # ParentDir))
        => NormalizedAsClaimed(arg, out.val)

\* rm(0) on the Filesystem f clears nodes, chunks and graph and returns every
\* chunk f held
RmRootClears(f) ==
    \A r \in rm(f, 0) :
        /\ r.ok
        /\ r.fs.nodes = <<>> /\ r.fs.data = <<>> /\ DOMAIN r.fs.graph = {}
        /\ \A i \in DOMAIN f.data : \E j \in DOMAIN r.val : r.val[j] = f.data[i]
        /\ Len(r.val) = Len(f.data)

\* a remove("/") that returns Ok leaves the journal alone in the folder, and
\* list("/") then returns the empty list
RemoveRootEmpties(st, disk) ==
    \A jfail \in BOOLEAN :
        LET r == remove(st, disk, <<>>, jfail)
        IN  r.ok =>
                /\ r.disk.exists /\ r.disk.has_journal
                /\ r.disk.parts = {}
                /\ list(r.st, <<>>).ok
                /\ list(r.st, <<>>).val = <<>>

\* C28: rm of the root empties the store: rm(0) clears all nodes, chunks and
\* graph edges of the Filesystem and returns every chunk that existed;
\* remove("/") on the Store leaves only the journal in the store folder, and
\* a list of "/" after it returns the empty list.
C28_RmRootEmpties ==
    /\ RmRootClears(fs)
    /\ Held => RemoveRootEmpties(store, folder)

\* the Filesystem's half of it
C28_RmRootClearsFilesystem == RmRootClears(fs)

\* the Store's half of it, in the runs where no call has returned an error
C28_RemoveRootEmptiesWhenNoCallFailed ==
    (Held /\ failures = 0) => RemoveRootEmpties(store, folder)

\* C31: create(path, password) on a path that already exists on the local
\* disk fails with FileAlreadyExists and leaves the folder, its journal and
\* its chunk files as they were: no create overwrites an existing store.
C31_CreateKeepsExistingFolder ==
    folder.exists =>
        \A password \in CreatePasswords, salt \in Uuids, iv \in Uuids, jfail \in BOOLEAN :
            LET r == create(folder, password, salt, iv, jfail)
            IN  /\ ~r.ok
                /\ r.err = "FileAlreadyExistsError"
                /\ r.disk = folder

\* create is called on the folder of a store that holds a file with chunks
C31_Witness ==
    /\ folder.exists /\ folder.has_journal /\ folder.parts # {}
    /\ Held /\ Len(store.inodes) > 1
    /\ \E password \in CreatePasswords, salt \in Uuids, iv \in Uuids :
           ~create(folder, password, salt, iv, FALSE).ok

\* the adds of a regular file, from the Store held and without I/O fault,
\* whose store path does not exist and runs through an existing file
AddsThroughFile ==
    {c \in {[src |-> src, store_path |-> p[1], ends_in_slash |-> p[2],
             r |-> add(store, folder, src, p[1], p[2], NoFault, u)] :
                src \in Sources, u \in Uuids, p \in Paths \X BOOLEAN} :
        \E k \in 1..(Len(c.store_path) - 1) :
            /\ inode_with_path(store, SubSeq(c.store_path, 1, k)).is_file
            /\ \A j \in (k + 1)..Len(c.store_path) :
                   inode_with_path(store, SubSeq(c.store_path, 1, j)).id = -1}

\* C32: add(file, store_path) where an intermediate component of the
\* destination path resolves to an existing file fails with
\* CannotCreateDirectory before any content is streamed: no chunk file is
\* written and no inode or chunk descriptor is added.
C32_AddThroughFileFailsEarly ==
    Held =>
        \A c \in AddsThroughFile :
            /\ ~c.r.ok
            /\ c.r.err = "CannotCreateDirectoryError"
            /\ c.r.disk.parts = folder.parts
            /\ c.r.st.inodes = store.inodes
            /\ c.r.st.data = store.data

\* every such add fails
C32_AddThroughFileFails ==
    Held => \A c \in AddsThroughFile : ~c.r.ok

\* with the store path written with a trailing slash such an add fails with
\* the already-exists error and changes nothing
C32_HoldsWithSlash ==
    Held =>
        \A c \in AddsThroughFile :
            c.ends_in_slash =>
                /\ ~c.r.ok
                /\ c.r.err = "StoreFileAlreadyExistsError"
                /\ c.r.st = store
                /\ c.r.disk = folder

\* an add through a file is reached
C32_Reached == Held /\ AddsThroughFile # {}

\* an add through a file that leaves an inode or a chunk file behind
C32_LeavesState ==
    Held /\ \E c \in AddsThroughFile :
                c.r.st.inodes # store.inodes \/ c.r.disk.parts # folder.parts

\* no file inode of st names a chunk id that the chunk table of st lacks
ChunkInvariant(st) ==
    \A i \in DOMAIN st.inodes :
        st.inodes[i].is_file =>
            \A k \in DOMAIN st.inodes[i].data :
                \E d \in DOMAIN st.data : st.data[d].id = st.inodes[i].data[k]

\* the adds of a regular file from the Store held that run up to their save,
\* each with its outcome when that save fails
AddsFailingAtSave ==
    {[src |-> src, store_path |-> p[1], ends_in_slash |-> p[2],
      r |-> add(store, folder, src, p[1], p[2], [kind |-> "save", at |-> 0], u)] :
         src \in Sources, u \in Uuids,
         p \in {q \in StorePaths :
                   \A v \in Uuids :
                       \A s \in Sources : add(store, folder, s, q[1], q[2], NoFault, v).ok}}

\* C33: if save() fails at the end of add, add returns that error, the chunk
\* files written by this add are removed, and the inodes in memory still
\* satisfy the chunk invariant: no file inode's data names a chunk id that is
\* missing from the chunk table.
C33_SaveFailureKeepsChunkInvariant ==
    (Held /\ ChunkInvariant(store)) =>
        \A c \in AddsFailingAtSave :
            /\ ~c.r.ok
            /\ c.r.err = "CannotWriteFileError"
            /\ c.r.disk.parts \subseteq folder.parts
            /\ ChunkInvariant(c.r.st)

\* the part of it on the error and the chunk files
C33_SaveFailureRemovesChunkFiles ==
    (Held /\ ChunkInvariant(store)) =>
        \A c \in AddsFailingAtSave :
            /\ ~c.r.ok
            /\ c.r.err = "CannotWriteFileError"
            /\ c.r.disk.parts \subseteq folder.parts
            /\ c.r.disk.journal = folder.journal
            /\ c.r.st.data = store.data

\* source directories by their walked tree: files as walkdir yields them and
\* dirs, the directories of the tree by their path under the source, the
\* source directory itself being <<>>; the walk yields these too and add
\* skips them (store.rs 368-374)
SourceTrees ==
    {[name |-> "b", files |-> <<>>, dirs |-> {<<>>}],
     [name |-> "b", files |-> <<Entry(<<"a">>, <<>>)>>, dirs |-> {<<>>}],
     [name |-> "b", files |-> <<Entry(<<"a">>, <<7>>)>>, dirs |-> {<<>>, <<"b">>}]}

\* the store path the add of the tree rewrites the directory d to
RewrittenDir(tree, d, src_slash, store_path, ends_in_slash) ==
    with_root(SourcePath(tree, src_slash).path \o d,
              IF ends_in_slash THEN SourcePath(tree, src_slash).parent
              ELSE SourcePath(tree, src_slash).path,
              store_path)

\* the directories d of the tree are directories of the Store after every
\* add of the tree, from the Store held, that returns Ok
TreeDirsExistAfterAdd(tree, ds) ==
    \A src_slash \in BOOLEAN, p \in StorePaths, u \in Uuids :
        \A r \in {add_dir(store, folder, tree, src_slash, p[1], p[2], 1, NoFault, u)} :
            r.ok =>
                \A d \in ds :
                    LET to == RewrittenDir(tree, d, src_slash, p[1], p[2])
                        node == inode_with_path(r.st, to.val)
                    IN  to.ok /\ node.id # -1 /\ ~node.is_file

\* C34: add of a directory source creates a directory for every directory of
\* the walked source tree, at its rewritten path, so that source directories
\* that contain no files, an entirely empty source directory included, exist
\* after a successful add.
C34_AddCreatesEveryDirectory ==
    Held => \A tree \in SourceTrees : TreeDirsExistAfterAdd(tree, tree.dirs)

\* clean() called on before left after and returned removed: after has the
\* nodes of before that the root reaches and the chunks that the files among
\* them name, removed is the other chunks, and a second clean() returns
\* nothing and changes nothing
CleanedExactly(before, after, removed) ==
    LET live == ReachFrom(before.graph, {0})
        files == SelectSeq(after.nodes, LAMBDA n : n.is_file)
    IN  /\ after.nodes = SelectSeq(before.nodes, LAMBDA n : n.id \in live)
        /\ after.data = SelectSeq(before.data, LAMBDA d : d.id \in DataKeep(files))
        /\ removed = SelectSeq(before.data, LAMBDA d : d.id \notin DataKeep(files))
        /\ clean(after) = Ok(<<>>, after)

\* C35: from any state of the Filesystem (any graph, nodes and chunk table)
\* clean() leaves exactly the nodes reachable from the root 0 through the
\* graph and exactly the chunks that surviving files name, returns exactly
\* the chunks it removed, changes no surviving id, and a second clean()
\* returns the empty list and changes nothing.
C35_CleanIsReachabilityGC ==
    out.op = "clean" => CleanedExactly(arg, fs, out.val)

\* some key of g is reached from itself
HasCycle(g) == \E k \in DOMAIN g : k \in ReachFrom(g, Range(g[k]))

\* the same for the graphs without a cycle
C35_HoldsWithoutCycles ==
    (out.op = "clean" /\ ~HasCycle(arg.graph)) => CleanedExactly(arg, fs, out.val)

\* mv(id, parent) on f succeeds when id is a node and parent is the root or
\* a directory, and fails only when one of the two ids is unknown
MvSucceeds(f, id, parent) ==
    LET known == FindNode(f, id) # NoNode
        places == parent = 0 \/ (FindNode(f, parent) # NoNode /\ ~FindNode(f, parent).is_file)
        unknown == FindNode(f, id) = NoNode \/ (parent # 0 /\ FindNode(f, parent) = NoNode)
    IN  \A r \in mv(f, id, parent) :
            /\ (known /\ places) => r.ok
            /\ ~r.ok => unknown

\* C36: mv(id, new_parent_id) succeeds whenever id is a live node and
\* new_parent_id is the root (id 0) or a live directory, and fails only when
\* one of the two ids is unknown; a node can be moved directly under the
\* root.
C36_MvSucceedsOnKnownIds ==
    \A id \in NodeIds, parent \in NodeIds : MvSucceeds(fs, id, parent)

\* the same for the new parents other than the root, before any mv has run
C36_HoldsBelowRootAtFirstMv ==
    moves = 0 => \A id \in NodeIds, parent \in NodeIds \ {0} : MvSucceeds(fs, id, parent)

\* the outcomes of every public call of the Filesystem on f that returns a
\* Result, over the inputs
PublicCalls(f) ==
    LET Of(r) == [ok |-> r.ok, fs |-> r.fs]
    IN  {Of(mkdirp(f, p)) : p \in Paths} \cup {Of(touch(f, p)) : p \in Paths}
            \cup {Of(get(f, id)) : id \in NodeIds}
            \cup {Of(set_size(f, id, size)) : id \in NodeIds, size \in Sizes}
            \cup UNION {{Of(r) : r \in mv(f, id, parent)} : id \in NodeIds, parent \in NodeIds}
            \cup UNION {{Of(r) : r \in rm(f, id)} : id \in NodeIds}
            \cup {Of(append(f, id, d)) : id \in NodeIds, d \in ChunkInputs}
            \cup {Of(truncate(f, id)) : id \in NodeIds}
            \cup {Of(set_metadata(f, id, k, v)) : id \in NodeIds, k \in MetaKeys, v \in Values}
            \cup {Of(get_metadata(f, id, k)) : id \in NodeIds, k \in MetaKeys}
            \cup {Of(rm_metadata(f, id, k)) : id \in NodeIds, k \in MetaKeys}
            \cup {Of(add_tag(f, id, t)) : id \in NodeIds, t \in Tags}
            \cup {Of(rm_tag(f, id, t)) : id \in NodeIds, t \in Tags}
            \cup {Of(clear_tag(f, id)) : id \in NodeIds}

\* C37: every public call of the Filesystem that returns an error (mkdirp,
\* touch, get, set_size, mv, rm, append, truncate, set_metadata,
\* get_metadata, rm_metadata, add_tag, rm_tag, clear_tag) leaves nodes,
\* chunks and graph exactly as they were before the call.
C37_ErrorsChangeNothing ==
    \A r \in PublicCalls(fs) : ~r.ok => r.fs = fs

\* calls fail on a Filesystem that holds a directory, a file with a chunk
\* and a file below a directory: mkdirp and touch through the file, append
\* and truncate on the directory, rm of an unknown id
C37_Witness ==
    /\ fs.data # <<>>
    /\ \E i \in DOMAIN fs.nodes : ~fs.nodes[i].is_file /\ ~append(fs, fs.nodes[i].id, CHOOSE d \in ChunkInputs : TRUE).ok
    /\ \E p \in Paths : Len(p) = 2 /\ ~mkdirp(fs, p).ok /\ ~touch(fs, p).ok
    /\ \E id \in NodeIds : \E r \in rm(fs, id) : ~r.ok
    /\ \E id \in NodeIds, parent \in NodeIds : \E r \in mv(fs, id, parent) : ~r.ok

\* path(id) returns for every node of f, and ls_all() and search_tag()
\* return without a panic
ListingsReturn(f) ==
    /\ \A i \in DOMAIN f.nodes : \A r \in fs_path(f, f.nodes[i].id) : r.err # "hang"
    /\ ~ls_all(f).panics
    /\ ~search_tag(f, <<>>).panics

\* C38: path(id), ls_all() and search_tag() terminate without panicking for
\* every live node after any sequence of public calls, also after mv of a
\* directory into itself or into one of its own descendants.
C38_ListingsTerminate == ListingsReturn(fs)

\* the same before any mv has run
C38_HoldsWithoutMv == moves = 0 => ListingsReturn(fs)

\* no child list of f names two nodes of one name
NoSiblingsOfOneName(f) ==
    \A k \in DOMAIN f.graph :
        \A i \in DOMAIN f.graph[k], j \in DOMAIN f.graph[k] :
            (i # j /\ FindNode(f, f.graph[k][i]) # NoNode /\ FindNode(f, f.graph[k][j]) # NoNode)
                => FindNode(f, f.graph[k][i]).name # FindNode(f, f.graph[k][j]).name

\* the node ids of f are pairwise distinct and none is 0
NodeIdsDistinct(f) ==
    /\ Len(f.nodes) = Cardinality(NodeIdSet(f))
    /\ 0 \notin NodeIdSet(f)

\* C39: after any sequence of mkdirp, touch, mv and rm no two children of the
\* same parent have the same name, so that every path resolves to at most
\* one node, and the node ids are pairwise distinct and never 0.
C39_SiblingNamesAndIdsDistinct ==
    NoSiblingsOfOneName(fs) /\ NodeIdsDistinct(fs)

\* the same before any mv has run
C39_HoldsWithoutMv == moves = 0 => (NoSiblingsOfOneName(fs) /\ NodeIdsDistinct(fs))

\* the ids are distinct and not 0 in every state
C39_NodeIdsDistinct == NodeIdsDistinct(fs)

\* a mv has put a node next to a sibling: some child list names two nodes,
\* after a mv
C39_Witness ==
    /\ moves > 0
    /\ \E k \in DOMAIN fs.graph :
           Cardinality({id \in Range(fs.graph[k]) : FindNode(fs, id) # NoNode}) >= 2

\* the child list of the directory d of st holds exactly the ids of the
\* inodes of st whose parent is d
ChildListExact(st, d) ==
    Range(d.data) = {st.inodes[j].id : j \in {k \in DOMAIN st.inodes :
                         st.inodes[k].parent = d.id /\ st.inodes[k].id # 0}}

\* C40: in the Store's inode table, after any sequence of add and remove
\* calls, remove("/") followed by further adds included, the child list of
\* every directory holds exactly the ids of the live inodes whose parent is
\* that directory: list(d) shows no entry that was added under another
\* directory, and no child list keeps the id of a removed inode.
C40_ChildListsExact ==
    Held =>
        \A i \in DOMAIN store.inodes :
            ~store.inodes[i].is_file => ChildListExact(store, store.inodes[i])

\* the same in the runs where no call has failed, for the directories other
\* than the root
C40_HoldsBelowRoot ==
    (Held /\ failures = 0) =>
        \A i \in DOMAIN store.inodes :
            (~store.inodes[i].is_file /\ store.inodes[i].id # 0)
                => ChildListExact(store, store.inodes[i])

====
